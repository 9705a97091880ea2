---------------------------- MODULE InteropProofs ----------------------------
(***************************************************************************)
(* Proofs about Interop, for every world that IsWorld allows, every plan,  *)
(* any number of calls and streams of any length.                          *)
(*                                                                         *)
(* First what the conversions and the tables do (the events and requests   *)
(* that survive them, the routes that the targets reach, the classes that  *)
(* errors come back as), then an invariant that says of each call what is  *)
(* asked, what is on its way and what has arrived, then a lemma per action *)
(* and the theorems.                                                       *)
(***************************************************************************)
EXTENDS Interop, WellFoundedInduction, TLAPS

-----------------------------------------------------------------------------
(* What the conversions lose                                               *)

CoreContent == {"text", "struct", "bytes", "uri"}

\* A part is what it was, through the types of 0.3 and through their protobuf form.
LEMMA PartTrip ==
    ASSUME NEW p \in Part
    PROVE  LET old == ToCompatPart(p)
           IN  /\ old \in CompatPart /\ ProtoPart(old) \in CompatPart
               /\ FromProtoPart(ProtoPart(old)) = old
               /\ ToCorePart(old) = p
<1> DEFINE old == ToCompatPart(p)
<1>1. /\ old \in [content : CoreContent, wrapped : BOOLEAN]
      /\ ToCorePart(old) = p
  BY DEF ToCompatPart, ToCorePart, Part, CoreContent
<1> HIDE DEF old
<1>2. \A c, d \in CoreContent : PartField[c] = PartField[d] => c = d
  BY DEF PartField, CoreContent
<1>3. DOMAIN PartField = CoreContent
  BY DEF PartField, CoreContent
<1>4. \A c \in CoreContent : PartField[c] \in {"text", "data", "file_with_bytes", "file_with_uri"}
  BY DEF PartField, CoreContent
<1>5. ProtoPart(old) = [content |-> PartField[old.content], wrapped |-> old.wrapped]
  BY <1>1 DEF ProtoPart
<1>6. (CHOOSE c \in DOMAIN PartField : PartField[c] = PartField[old.content]) = old.content
  BY <1>1, <1>2, <1>3
<1>7. FromProtoPart(ProtoPart(old)) = old
  BY <1>1, <1>5, <1>6 DEF FromProtoPart
<1> QED BY <1>1, <1>4, <1>5, <1>7 DEF CompatPart, CoreContent, old

\* A message in one of its forms, and what each conversion makes of it.
Forms == [role : {"user", "agent", "unspecified"}, part : Part \cup CompatPart \cup {Absent},
          has : SUBSET {"references", "metadata", "extensions"}]
\* Each conversion takes a message of one form to one of the next, or nothing to nothing.
LEMMA MessageSteps ==
    ASSUME NEW m \in Forms
    PROVE  /\ m # Absent
           /\ ToCompatMessage(m) = [role |-> IF m.role = "user" THEN "user" ELSE "agent", has |-> m.has,
                                    part |-> IF m.part = Absent THEN Absent ELSE ToCompatPart(m.part)]
           /\ ToCoreMessage(m) = [role |-> m.role, has |-> m.has,
                                  part |-> IF m.part = Absent THEN Absent ELSE ToCorePart(m.part)]
           /\ ProtoMessage(m) = [role |-> m.role, has |-> m.has \ {"references"},
                                 part |-> IF m.part = Absent THEN Absent ELSE ProtoPart(m.part)]
           /\ FromProtoMessage(m) = [role |-> m.role, has |-> m.has,
                                     part |-> IF m.part = Absent THEN Absent ELSE FromProtoPart(m.part)]
<1>1. m # Absent
  BY AbsentAssumption DEF Forms
<1>2. ToCompatMessage(m)
        \in [role : {IF m.role = "user" THEN "user" ELSE "agent"}, has : {m.has},
             part : {IF m.part = Absent THEN Absent ELSE ToCompatPart(m.part)}]
  BY DEF ToCompatMessage, Option, Forms
<1>3. ToCoreMessage(m)
        \in [role : {m.role}, has : {m.has}, part : {IF m.part = Absent THEN Absent ELSE ToCorePart(m.part)}]
  BY DEF ToCoreMessage, Option, Forms
<1>4. ProtoMessage(m)
        \in [role : {m.role}, has : {m.has \ {"references"}},
             part : {IF m.part = Absent THEN Absent ELSE ProtoPart(m.part)}]
  BY DEF ProtoMessage, Option, Forms
<1>5. FromProtoMessage(m)
        \in [role : {m.role}, has : {m.has},
             part : {IF m.part = Absent THEN Absent ELSE FromProtoPart(m.part)}]
  BY <1>1 DEF FromProtoMessage, Option, Forms
<1> HIDE DEF Forms
<1> QED BY <1>1, <1>2, <1>3, <1>4, <1>5

\* A message comes back with a role, and without references from the protobuf form.
Named(m) == [role |-> IF m.role = "unspecified" THEN "agent" ELSE m.role, part |-> m.part, has |-> m.has]
Bare(m)  == [role |-> m.role, part |-> m.part, has |-> m.has \ {"references"}]
\* A message there and back: through the types of 0.3, and through their protobuf form.
LEMMA MessageTrip ==
    ASSUME NEW m \in Message
    PROVE  LET old == ToCompatMessage(m)
               far == FromProtoMessage(ProtoMessage(old))
           IN  /\ m # Absent /\ old # Absent /\ ProtoMessage(old) # Absent /\ far # Absent
               /\ m \in Forms /\ old \in Forms /\ ProtoMessage(old) \in Forms /\ far \in Forms
               /\ ToCoreMessage(old) = Named(m)
               /\ ToCoreMessage(far) = Bare(Named(m))
               /\ Named(m) \in Message /\ Bare(Named(m)) \in Message
<1> DEFINE part == ToCompatPart(m.part)
           role == IF m.role = "user" THEN "user" ELSE "agent"
           has  == m.has \ {"references"}
           old  == ToCompatMessage(m)
           sent == ProtoMessage(old)
           far  == FromProtoMessage(sent)
<1>1. /\ m.part \in Part /\ m.role \in {"user", "agent", "unspecified"}
      /\ m.has \in SUBSET {"references", "metadata", "extensions"}
      /\ m \in Forms
  BY DEF Message, Forms
<1>2. /\ part \in CompatPart /\ ProtoPart(part) \in CompatPart
      /\ FromProtoPart(ProtoPart(part)) = part /\ ToCorePart(part) = m.part
  BY <1>1, PartTrip
<1>3. m.part # Absent /\ part # Absent /\ ProtoPart(part) # Absent
  BY <1>1, <1>2, AbsentAssumption
<1> HIDE DEF part
<1>4. old = [role |-> role, part |-> part, has |-> m.has]
  BY <1>1, <1>3, MessageSteps DEF part
<1>5. old \in Forms
  BY <1>1, <1>2, <1>4 DEF Forms
<1>6. sent = [role |-> role, part |-> ProtoPart(part), has |-> has]
  BY <1>3, <1>4, <1>5, MessageSteps
<1>7. sent \in Forms
  BY <1>1, <1>2, <1>6 DEF Forms
<1>8. far = [role |-> role, part |-> part, has |-> has]
  BY <1>2, <1>3, <1>6, <1>7, MessageSteps
<1>9. far \in Forms
  BY <1>1, <1>2, <1>8 DEF Forms
<1>10. ToCoreMessage(old) = [role |-> role, part |-> m.part, has |-> m.has]
  BY <1>2, <1>3, <1>4, <1>5, MessageSteps
<1>11. ToCoreMessage(far) = [role |-> role, part |-> m.part, has |-> has]
  <2>1. ToCoreMessage(far) = [role |-> far.role, has |-> far.has,
                              part |-> IF far.part = Absent THEN Absent ELSE ToCorePart(far.part)]
    BY <1>9, MessageSteps
  <2>2. far.role = role /\ far.part = part /\ far.has = has
    BY <1>8
  <2>3. (IF part = Absent THEN Absent ELSE ToCorePart(part)) = m.part
    BY <1>2, <1>3
  <2> QED BY <2>1, <2>2, <2>3
<1>12. m # Absent /\ old # Absent /\ sent # Absent /\ far # Absent
  BY <1>1, <1>5, <1>7, <1>9, MessageSteps
<1>13. role = IF m.role = "unspecified" THEN "agent" ELSE m.role
  BY <1>1
<1>14. /\ ToCoreMessage(old) = Named(m) /\ ToCoreMessage(far) = Bare(Named(m))
       /\ Named(m) \in Message /\ Bare(Named(m)) \in Message
  BY <1>1, <1>10, <1>11, <1>13 DEF Named, Bare, Message
<1> QED BY <1>1, <1>5, <1>7, <1>9, <1>12, <1>14

\* The state of a task is what it was.
LEMMA StateTrip ==
    ASSUME NEW s \in State
    PROVE  /\ ToCoreState(ToCompatState(s)) = s
           /\ {ToCompatState(s), ProtoState(ToCompatState(s)), FromProtoState(ProtoState(ToCompatState(s)))}
                \subseteq State \cup {"unknown"}
           /\ ToCoreState(FromProtoState(ProtoState(ToCompatState(s)))) = s
<1>1. \A a, b \in State : CompatState[a] = CompatState[b] => a = b
  BY DEF CompatState, State
<1>2. \A a \in State : (CHOOSE core \in State : CompatState[core] = CompatState[a]) = a
  BY <1>1
<1>3. FromProtoState(ProtoState(ToCompatState(s))) = ToCompatState(s)
  BY DEF ToCompatState, CompatState, State, ProtoState, FromProtoState
<1>4. {ToCompatState(s), ProtoState(ToCompatState(s))} \subseteq State \cup {"unknown"}
  BY DEF ToCompatState, CompatState, State, ProtoState
<1> QED BY <1>2, <1>3, <1>4 DEF ToCoreState, ToCompatState

\* What each conversion makes of a status in whichever of its forms.
StatusForms == [state : State \cup {"unknown"}, message : Forms \cup {Absent}, timestamp : BOOLEAN]
\* The same of a status,
LEMMA StatusSteps ==
    ASSUME NEW s \in StatusForms
    PROVE  /\ ToCompatStatus(s)
                = [state |-> ToCompatState(s.state), timestamp |-> s.timestamp,
                   message |-> IF s.message = Absent THEN Absent ELSE ToCompatMessage(s.message)]
           /\ ToCoreStatus(s)
                = [state |-> ToCoreState(s.state), timestamp |-> s.timestamp,
                   message |-> IF s.message = Absent THEN Absent ELSE ToCoreMessage(s.message)]
           /\ ProtoStatus(s)
                = [state |-> ProtoState(s.state), timestamp |-> FALSE,
                   message |-> IF s.message = Absent THEN Absent ELSE ProtoMessage(s.message)]
           /\ FromProtoStatus(s)
                = [state |-> FromProtoState(s.state), timestamp |-> s.timestamp,
                   message |-> FromProtoMessage(s.message)]
<1>1. ToCompatStatus(s)
        \in [state : {ToCompatState(s.state)}, timestamp : {s.timestamp},
             message : {IF s.message = Absent THEN Absent ELSE ToCompatMessage(s.message)}]
  BY DEF ToCompatStatus, Option, StatusForms
<1>2. ToCoreStatus(s)
        \in [state : {ToCoreState(s.state)}, timestamp : {s.timestamp},
             message : {IF s.message = Absent THEN Absent ELSE ToCoreMessage(s.message)}]
  BY DEF ToCoreStatus, Option, StatusForms
<1>3. ProtoStatus(s)
        \in [state : {ProtoState(s.state)}, timestamp : {FALSE},
             message : {IF s.message = Absent THEN Absent ELSE ProtoMessage(s.message)}]
  BY DEF ProtoStatus, Option, StatusForms
<1>4. FromProtoStatus(s)
        \in [state : {FromProtoState(s.state)}, timestamp : {s.timestamp},
             message : {FromProtoMessage(s.message)}]
  BY DEF FromProtoStatus, StatusForms
<1> QED BY <1>1, <1>2, <1>3, <1>4

\* A status keeps its state; from the protobuf form it comes back without its timestamp and,
\* where it had no message, with a blank one.
LEMMA StatusTrip ==
    ASSUME NEW s \in Status(Message)
    PROVE  LET old == ToCompatStatus(s)
           IN  /\ {s, old, ProtoStatus(old), FromProtoStatus(ProtoStatus(old))} \subseteq StatusForms
               /\ ToCoreStatus(old)
                    = [state |-> s.state, timestamp |-> s.timestamp,
                       message |-> IF s.message = Absent THEN Absent ELSE Named(s.message)]
               /\ ToCoreStatus(FromProtoStatus(ProtoStatus(old)))
                    = [state |-> s.state, timestamp |-> FALSE,
                       message |-> IF s.message = Absent THEN BlankMessage ELSE Bare(Named(s.message))]
<1> DEFINE old  == ToCompatStatus(s)
           sent == ProtoStatus(old)
           far  == FromProtoStatus(sent)
           st   == ToCompatState(s.state)
           far_st == FromProtoState(ProtoState(st))
           msg  == IF s.message = Absent THEN Absent ELSE ToCompatMessage(s.message)
           pmsg == IF msg = Absent THEN Absent ELSE ProtoMessage(msg)
           fmsg == FromProtoMessage(pmsg)
<1>1. s.state \in State /\ s.message \in Message \cup {Absent} /\ s.timestamp \in BOOLEAN
  BY DEF Status
<1>0. /\ s \in StatusForms
      /\ {st, ProtoState(st), far_st} \subseteq State \cup {"unknown"}
      /\ ToCoreState(st) = s.state /\ ToCoreState(far_st) = s.state
      /\ {msg, pmsg, fmsg} \subseteq Forms \cup {Absent}
  <2>1. s.message # Absent => {s.message, msg, pmsg, fmsg} \subseteq Forms
    BY <1>1, MessageTrip
  <2>2. s.message = Absent => msg = Absent /\ pmsg = Absent /\ fmsg \in Forms
    BY DEF FromProtoMessage, BlankMessage, Forms
  <2>3. s.message \in Forms \cup {Absent} /\ {msg, pmsg, fmsg} \subseteq Forms \cup {Absent}
    BY <2>1, <2>2
  <2>4. /\ {st, ProtoState(st), far_st} \subseteq State \cup {"unknown"}
        /\ ToCoreState(st) = s.state /\ ToCoreState(far_st) = s.state
    BY <1>1, StateTrip
  <2>5. s \in StatusForms
    BY <1>1, <2>3 DEF Status, StatusForms
  <2> QED BY <2>3, <2>4, <2>5
<1>2. old = [state |-> st, timestamp |-> s.timestamp, message |-> msg]
  BY <1>0, StatusSteps
<1> HIDE DEF st, far_st, msg, pmsg, fmsg, old
<1>a. old \in StatusForms
  BY <1>0, <1>1, <1>2 DEF StatusForms
<1>3. sent = [state |-> ProtoState(st), timestamp |-> FALSE, message |-> pmsg]
  BY <1>2, <1>a, StatusSteps DEF pmsg
<1> HIDE DEF sent
<1>b. sent \in StatusForms
  BY <1>0, <1>3 DEF StatusForms
<1>4. far = [state |-> far_st, timestamp |-> FALSE, message |-> fmsg]
  BY <1>3, <1>b, StatusSteps DEF fmsg, far_st
<1> HIDE DEF far
<1>c. far \in StatusForms
  BY <1>0, <1>4 DEF StatusForms
<1>5. ToCoreStatus(old) = [state |-> s.state, timestamp |-> s.timestamp,
                           message |-> IF msg = Absent THEN Absent ELSE ToCoreMessage(msg)]
  BY <1>0, <1>2, <1>a, StatusSteps
<1>6. ToCoreStatus(far) = [state |-> s.state, timestamp |-> FALSE,
                           message |-> IF fmsg = Absent THEN Absent ELSE ToCoreMessage(fmsg)]
  BY <1>0, <1>4, <1>c, StatusSteps
<1>7. /\ (IF msg = Absent THEN Absent ELSE ToCoreMessage(msg))
            = IF s.message = Absent THEN Absent ELSE Named(s.message)
      /\ (IF fmsg = Absent THEN Absent ELSE ToCoreMessage(fmsg))
            = IF s.message = Absent THEN BlankMessage ELSE Bare(Named(s.message))
  <2>1. CASE s.message = Absent
    <3>1. BlankMessage \in Forms
      BY DEF BlankMessage, Forms
    <3>2. ToCoreMessage(BlankMessage) = BlankMessage
      BY <3>1, MessageSteps DEF BlankMessage
    <3>3. fmsg = BlankMessage /\ BlankMessage # Absent
      BY <2>1, <3>1, MessageSteps DEF FromProtoMessage, msg, pmsg, fmsg
    <3> QED BY <2>1, <3>2, <3>3 DEF msg
  <2>2. CASE s.message # Absent
    <3>1. s.message \in Message
      BY <1>1, <2>2
    <3> QED BY <2>2, <3>1, MessageTrip DEF msg, pmsg, fmsg
  <2> QED BY <2>1, <2>2
<1>8. /\ ToCoreStatus(old) = [state |-> s.state, timestamp |-> s.timestamp,
                              message |-> IF s.message = Absent THEN Absent ELSE Named(s.message)]
      /\ ToCoreStatus(far) = [state |-> s.state, timestamp |-> FALSE,
                              message |-> IF s.message = Absent THEN BlankMessage ELSE Bare(Named(s.message))]
  BY <1>5, <1>6, <1>7
<1> QED BY <1>0, <1>a, <1>b, <1>c, <1>8 DEF far, sent, old

\* An event in one of its forms, and what each conversion makes of it.
Kind == {"task", "status", "artifact", "message", "config", "other"}
EventForms == [kind : Kind, status : StatusForms \cup {Absent}, history : Forms \cup {Absent},
               artifact : Part \cup CompatPart \cup {Absent}, message : Forms \cup {Absent},
               push : Push \cup [schemes : {<<>>, <<"bearer">>}] \cup {Absent}, final : BOOLEAN]
\* From 1.0 to the types of 0.3,
LEMMA ToCompatEventSteps ==
    ASSUME NEW e \in EventForms
    PROVE  ToCompatEvent(e)
             \in [kind : {e.kind},
                  status : {IF e.kind \in {"task", "status"} THEN ToCompatStatus(e.status) ELSE e.status},
                  history : {IF e.kind = "task" /\ e.history # Absent THEN ToCompatMessage(e.history) ELSE e.history},
                  artifact : {IF \/ e.kind = "artifact"
                                 \/ e.kind = "task" /\ e.artifact # Absent
                              THEN ToCompatPart(e.artifact) ELSE e.artifact},
                  message : {IF e.kind = "message" THEN ToCompatMessage(e.message) ELSE e.message},
                  push : {IF e.kind = "config" THEN ToCompatPush(e.push) ELSE e.push}, final : {IF e.kind = "status" THEN e.status.state \in Ended ELSE e.final}]
<1>1. CASE e.kind = "task"
  BY <1>1 DEF EventForms, ToCompatEvent, ToCompatAnswer, ToCompatTask, ToCompatUpdate, ToCompatArtifactUpdate,
             ToCompatArtifact, ToCompatConfig, Option
<1>2. CASE e.kind = "status"
  BY <1>2 DEF EventForms, ToCompatEvent, ToCompatAnswer, ToCompatTask, ToCompatUpdate, ToCompatArtifactUpdate,
             ToCompatArtifact, ToCompatConfig, Option
<1>3. CASE e.kind = "artifact"
  BY <1>3 DEF EventForms, ToCompatEvent, ToCompatAnswer, ToCompatTask, ToCompatUpdate, ToCompatArtifactUpdate,
             ToCompatArtifact, ToCompatConfig, Option
<1>4. CASE e.kind = "message"
  BY <1>4 DEF EventForms, ToCompatEvent, ToCompatAnswer, ToCompatTask, ToCompatUpdate, ToCompatArtifactUpdate,
             ToCompatArtifact, ToCompatConfig, Option
<1>5. CASE e.kind = "config"
  BY <1>5 DEF EventForms, ToCompatEvent, ToCompatAnswer, ToCompatTask, ToCompatUpdate, ToCompatArtifactUpdate,
             ToCompatArtifact, ToCompatConfig, Option
<1>6. CASE e.kind = "other"
  BY <1>6 DEF EventForms, ToCompatEvent, ToCompatAnswer, ToCompatTask, ToCompatUpdate, ToCompatArtifactUpdate,
             ToCompatArtifact, ToCompatConfig, Option
<1> QED BY <1>1, <1>2, <1>3, <1>4, <1>5, <1>6 DEF EventForms, Kind

\* back,
LEMMA ToCoreEventSteps ==
    ASSUME NEW e \in EventForms
    PROVE  ToCoreEvent(e)
             \in [kind : {e.kind},
                  status : {IF e.kind \in {"task", "status"} THEN ToCoreStatus(e.status) ELSE e.status},
                  history : {IF e.kind = "task" /\ e.history # Absent THEN ToCoreMessage(e.history) ELSE e.history},
                  artifact : {IF \/ e.kind = "artifact"
                                 \/ e.kind = "task" /\ e.artifact # Absent
                              THEN ToCorePart(e.artifact) ELSE e.artifact},
                  message : {IF e.kind = "message" THEN ToCoreMessage(e.message) ELSE e.message},
                  push : {IF e.kind = "config" THEN ToCorePush(e.push) ELSE e.push}, final : {IF e.kind = "status" THEN FALSE ELSE e.final}]
<1>1. CASE e.kind = "task"
  BY <1>1 DEF EventForms, ToCoreEvent, ToCoreAnswer, ToCoreTask, ToCoreUpdate, ToCoreArtifactUpdate,
             ToCoreArtifact, ToCoreConfig, Option
<1>2. CASE e.kind = "status"
  BY <1>2 DEF EventForms, ToCoreEvent, ToCoreAnswer, ToCoreTask, ToCoreUpdate, ToCoreArtifactUpdate,
             ToCoreArtifact, ToCoreConfig, Option
<1>3. CASE e.kind = "artifact"
  BY <1>3 DEF EventForms, ToCoreEvent, ToCoreAnswer, ToCoreTask, ToCoreUpdate, ToCoreArtifactUpdate,
             ToCoreArtifact, ToCoreConfig, Option
<1>4. CASE e.kind = "message"
  BY <1>4 DEF EventForms, ToCoreEvent, ToCoreAnswer, ToCoreTask, ToCoreUpdate, ToCoreArtifactUpdate,
             ToCoreArtifact, ToCoreConfig, Option
<1>5. CASE e.kind = "config"
  BY <1>5 DEF EventForms, ToCoreEvent, ToCoreAnswer, ToCoreTask, ToCoreUpdate, ToCoreArtifactUpdate,
             ToCoreArtifact, ToCoreConfig, Option
<1>6. CASE e.kind = "other"
  BY <1>6 DEF EventForms, ToCoreEvent, ToCoreAnswer, ToCoreTask, ToCoreUpdate, ToCoreArtifactUpdate,
             ToCoreArtifact, ToCoreConfig, Option
<1> QED BY <1>1, <1>2, <1>3, <1>4, <1>5, <1>6 DEF EventForms, Kind

\* from these to their protobuf form,
LEMMA ProtoEventSteps ==
    ASSUME NEW e \in EventForms
    PROVE  ProtoEvent(e)
             \in [kind : {e.kind},
                  status : {IF e.kind \in {"task", "status"} THEN ProtoStatus(e.status) ELSE e.status},
                  history : {IF e.kind = "task" /\ e.history # Absent THEN ProtoMessage(e.history) ELSE e.history},
                  artifact : {IF \/ e.kind = "artifact"
                                 \/ e.kind = "task" /\ e.artifact # Absent
                              THEN ProtoPart(e.artifact) ELSE e.artifact},
                  message : {IF e.kind = "message" THEN ProtoMessage(e.message) ELSE e.message},
                  push : {e.push}, final : {e.final}]
<1>1. CASE e.kind = "task"
  BY <1>1 DEF EventForms, ProtoEvent, ProtoTask, Option
<1>2. CASE e.kind = "status"
  BY <1>2 DEF EventForms, ProtoEvent, ProtoTask, Option
<1>3. CASE e.kind = "artifact"
  BY <1>3 DEF EventForms, ProtoEvent, ProtoTask, Option
<1>4. CASE e.kind = "message"
  BY <1>4 DEF EventForms, ProtoEvent, ProtoTask, Option
<1>5. CASE e.kind = "config"
  BY <1>5 DEF EventForms, ProtoEvent, ProtoTask, Option
<1>6. CASE e.kind = "other"
  BY <1>6 DEF EventForms, ProtoEvent, ProtoTask, Option
<1> QED BY <1>1, <1>2, <1>3, <1>4, <1>5, <1>6 DEF EventForms, Kind

\* and back.
LEMMA FromProtoEventSteps ==
    ASSUME NEW e \in EventForms
    PROVE  FromProtoEvent(e)
             \in [kind : {e.kind},
                  status : {IF e.kind \in {"task", "status"} THEN FromProtoStatus(e.status) ELSE e.status},
                  history : {IF e.kind = "task" /\ e.history # Absent THEN FromProtoMessage(e.history) ELSE e.history},
                  artifact : {IF \/ e.kind = "artifact"
                                 \/ e.kind = "task" /\ e.artifact # Absent
                              THEN FromProtoPart(e.artifact) ELSE e.artifact},
                  message : {IF e.kind = "message" THEN FromProtoMessage(e.message) ELSE e.message},
                  push : {e.push}, final : {e.final}]
<1>1. CASE e.kind = "task"
  BY <1>1 DEF EventForms, FromProtoEvent, FromProtoTask, Option
<1>2. CASE e.kind = "status"
  BY <1>2 DEF EventForms, FromProtoEvent, FromProtoTask, Option
<1>3. CASE e.kind = "artifact"
  BY <1>3 DEF EventForms, FromProtoEvent, FromProtoTask, Option
<1>4. CASE e.kind = "message"
  BY <1>4 DEF EventForms, FromProtoEvent, FromProtoTask, Option
<1>5. CASE e.kind = "config"
  BY <1>5 DEF EventForms, FromProtoEvent, FromProtoTask, Option
<1>6. CASE e.kind = "other"
  BY <1>6 DEF EventForms, FromProtoEvent, FromProtoTask, Option
<1> QED BY <1>1, <1>2, <1>3, <1>4, <1>5, <1>6 DEF EventForms, Kind

\* A push configuration is what it was.
LEMMA PushTrip ==
    ASSUME NEW p \in Push
    PROVE  /\ p # Absent /\ ToCompatPush(p) # Absent
           /\ ToCompatPush(p) \in [schemes : {<<>>, <<"bearer">>}] /\ ToCorePush(ToCompatPush(p)) = p
<1>1. p = [scheme |-> p.scheme] /\ p.scheme \in {"none", "bearer"}
  BY DEF Push
<1>2. CASE p.scheme = "none"
  <2>1. ToCompatPush(p) = [schemes |-> <<>>]
    BY <1>2 DEF ToCompatPush
  <2> QED BY <1>1, <1>2, <2>1, AbsentAssumption DEF ToCorePush
<1>3. CASE p.scheme = "bearer"
  <2>1. ToCompatPush(p) = [schemes |-> <<"bearer">>]
    BY <1>3 DEF ToCompatPush
  <2>2. <<"bearer">> # <<>> /\ <<"bearer">>[1] = "bearer"
    OBVIOUS
  <2>3. ToCorePush(ToCompatPush(p)) = [scheme |-> "bearer"]
    BY <2>1, <2>2 DEF ToCorePush
  <2> QED BY <1>1, <1>3, <2>1, <2>3, AbsentAssumption
<1> QED BY <1>1, <1>2, <1>3

-----------------------------------------------------------------------------
(* What the caller gets of an event                                        *)

Transports == [binding : Bindings, legacy : BOOLEAN]

SaidMessage(t, m) ==
    IF ~t.legacy \/ m = Absent THEN m ELSE IF ViaProto(t) THEN Bare(Named(m)) ELSE Named(m)
SaidStatus(t, s) ==
    IF ~t.legacy \/ s = Absent THEN s
    ELSE [state |-> s.state, timestamp |-> IF ViaProto(t) THEN FALSE ELSE s.timestamp,
          message |-> IF s.message # Absent THEN SaidMessage(t, s.message)
                      ELSE IF ViaProto(t) THEN BlankMessage ELSE Absent]

\* An event passes through the conversions of its transport.
LEMMA EventTrip ==
    ASSUME NEW t \in Transports, NEW e \in Event(Message), IsWhole(e)
    PROVE  Understood(t, Reply(t, e))
             \in [kind : {e.kind}, status : {SaidStatus(t, e.status)},
                  history : {SaidMessage(t, e.history)}, artifact : {e.artifact},
                  message : {SaidMessage(t, e.message)}, push : {e.push}, final : {FALSE}]
<1> DEFINE old  == ToCompatEvent(e)
           sent == ProtoEvent(old)
           far  == FromProtoEvent(sent)
<1>0. /\ e.kind \in Kind /\ e.status \in Status(Message) \cup {Absent}
      /\ e.history \in Message \cup {Absent} /\ e.artifact \in Part \cup {Absent}
      /\ e.message \in Message \cup {Absent} /\ e.push \in Push \cup {Absent} /\ e.final = FALSE
      /\ e \in [kind : {e.kind}, status : {e.status}, history : {e.history}, artifact : {e.artifact},
                message : {e.message}, push : {e.push}, final : {FALSE}]
  BY DEF Event, Kind
<1>1. CASE ~t.legacy
  BY <1>0, <1>1 DEF Understood, Reply, SaidStatus, SaidMessage
<1>2. CASE t.legacy
  <2>1. /\ e.kind \in {"task", "status"} => e.status \in Status(Message)
        /\ e.kind \notin {"task", "status"} => e.status = Absent
        /\ e.kind = "message" => e.message \in Message
        /\ e.kind # "message" => e.message = Absent
        /\ e.kind # "task" => e.history = Absent
        /\ e.kind = "artifact" => e.artifact \in Part
        /\ e.kind \notin {"task", "artifact"} => e.artifact = Absent
        /\ e.kind = "config" => e.push \in Push
        /\ e.kind # "config" => e.push = Absent
    BY <1>0 DEF IsWhole
  <2>2. \A m \in Message :
            /\ m # Absent /\ ToCompatMessage(m) # Absent /\ ProtoMessage(ToCompatMessage(m)) # Absent
            /\ FromProtoMessage(ProtoMessage(ToCompatMessage(m))) # Absent
            /\ {m, ToCompatMessage(m), ProtoMessage(ToCompatMessage(m)),
                FromProtoMessage(ProtoMessage(ToCompatMessage(m)))} \subseteq Forms
            /\ ToCoreMessage(ToCompatMessage(m)) = Named(m)
            /\ ToCoreMessage(FromProtoMessage(ProtoMessage(ToCompatMessage(m)))) = Bare(Named(m))
    BY MessageTrip
  <2>3. \A a \in Part :
            /\ a # Absent /\ ToCompatPart(a) # Absent /\ ProtoPart(ToCompatPart(a)) # Absent
            /\ {ToCompatPart(a), ProtoPart(ToCompatPart(a))} \subseteq CompatPart
            /\ FromProtoPart(ProtoPart(ToCompatPart(a))) = ToCompatPart(a)
            /\ ToCorePart(ToCompatPart(a)) = a
    BY PartTrip, AbsentAssumption
  <2>4. \A s \in Status(Message) :
            /\ {s, ToCompatStatus(s), ProtoStatus(ToCompatStatus(s)),
                FromProtoStatus(ProtoStatus(ToCompatStatus(s)))} \subseteq StatusForms
            /\ ToCoreStatus(ToCompatStatus(s))
                 = [state |-> s.state, timestamp |-> s.timestamp,
                    message |-> IF s.message = Absent THEN Absent ELSE Named(s.message)]
            /\ ToCoreStatus(FromProtoStatus(ProtoStatus(ToCompatStatus(s))))
                 = [state |-> s.state, timestamp |-> FALSE,
                    message |-> IF s.message = Absent THEN BlankMessage ELSE Bare(Named(s.message))]
    BY StatusTrip
  <2>5. e \in EventForms
    BY <1>0, <2>1, <2>2, <2>4 DEF EventForms
  <2> DEFINE s1 == IF e.status = Absent THEN Absent ELSE ToCompatStatus(e.status)
             s2 == IF e.status = Absent THEN Absent ELSE ProtoStatus(s1)
             s3 == IF e.status = Absent THEN Absent ELSE FromProtoStatus(s2)
             h1 == IF e.history = Absent THEN Absent ELSE ToCompatMessage(e.history)
             h2 == IF e.history = Absent THEN Absent ELSE ProtoMessage(h1)
             h3 == IF e.history = Absent THEN Absent ELSE FromProtoMessage(h2)
             a1 == IF e.artifact = Absent THEN Absent ELSE ToCompatPart(e.artifact)
             a2 == IF e.artifact = Absent THEN Absent ELSE ProtoPart(a1)
             m1 == IF e.message = Absent THEN Absent ELSE ToCompatMessage(e.message)
             m2 == IF e.message = Absent THEN Absent ELSE ProtoMessage(m1)
             m3 == IF e.message = Absent THEN Absent ELSE FromProtoMessage(m2)
             p1 == IF e.push = Absent THEN Absent ELSE ToCompatPush(e.push)
             f1 == IF e.kind = "status" THEN e.status.state \in Ended ELSE FALSE
  <2>6. e.status # Absent => e.kind \in {"task", "status"}
    BY <2>1
  <2>7. old \in [kind : {e.kind}, status : {s1}, history : {h1}, artifact : {a1}, message : {m1},
                 push : {p1}, final : {f1}]
    <3>1. /\ (IF e.kind \in {"task", "status"} THEN ToCompatStatus(e.status) ELSE e.status) = s1
          /\ (IF e.kind = "task" /\ e.history # Absent THEN ToCompatMessage(e.history) ELSE e.history) = h1
          /\ (IF e.kind = "artifact" \/ (e.kind = "task" /\ e.artifact # Absent)
              THEN ToCompatPart(e.artifact) ELSE e.artifact) = a1
          /\ (IF e.kind = "message" THEN ToCompatMessage(e.message) ELSE e.message) = m1
          /\ (IF e.kind = "config" THEN ToCompatPush(e.push) ELSE e.push) = p1
          /\ (IF e.kind = "status" THEN e.status.state \in Ended ELSE e.final) = f1
      BY <1>0, <2>1, <2>2, <2>3, <2>6, PushTrip DEF IsWhole
    <3> QED BY <2>5, <3>1, ToCompatEventSteps
  <2>8. /\ {s1, s2, s3} \subseteq StatusForms \cup {Absent}
        /\ {h1, h2, h3, m1, m2, m3} \subseteq Forms \cup {Absent}
        /\ {a1, a2} \subseteq CompatPart \cup {Absent}
        /\ p1 \in [schemes : {<<>>, <<"bearer">>}] \cup {Absent} /\ f1 \in BOOLEAN
        /\ e.status # Absent => {s1, s2, s3} \subseteq StatusForms
    <3>1. e.status # Absent => {s1, s2, s3} \subseteq StatusForms
      BY <1>0, <2>4
    <3>2. e.history # Absent => {h1, h2, h3} \subseteq Forms
      BY <1>0, <2>2
    <3>3. e.message # Absent => {m1, m2, m3} \subseteq Forms
      BY <1>0, <2>2
    <3>4. e.artifact # Absent => {a1, a2} \subseteq CompatPart
      BY <1>0, <2>3
    <3>5. p1 \in [schemes : {<<>>, <<"bearer">>}] \cup {Absent}
      BY <1>0, PushTrip
    <3>6. f1 \in BOOLEAN
      <4>1. CASE e.kind = "status"
        <5>1. f1 = (e.status.state \in Ended)
          BY <4>1
        <5>2. (e.status.state \in Ended) \in BOOLEAN
          OBVIOUS
        <5> QED BY <5>1, <5>2
      <4>2. CASE e.kind # "status"
        BY <4>2
      <4> QED BY <4>1, <4>2
    <3>7. /\ e.status = Absent => {s1, s2, s3} \subseteq {Absent}
          /\ e.history = Absent => {h1, h2, h3} \subseteq {Absent}
          /\ e.message = Absent => {m1, m2, m3} \subseteq {Absent}
          /\ e.artifact = Absent => {a1, a2} \subseteq {Absent}
      OBVIOUS
    <3> HIDE DEF s1, s2, s3, h1, h2, h3, a1, a2, m1, m2, m3, p1, f1
    <3> QED BY <3>1, <3>2, <3>3, <3>4, <3>5, <3>6, <3>7
  <2>9. /\ (h1 = Absent <=> e.history = Absent) /\ (h2 = Absent <=> e.history = Absent)
        /\ (h3 = Absent <=> e.history = Absent)
        /\ (a1 = Absent <=> e.artifact = Absent) /\ (a2 = Absent <=> e.artifact = Absent)
        /\ e.artifact # Absent => FromProtoPart(a2) = a1 /\ ToCorePart(a1) = e.artifact
        /\ e.push # Absent => ToCorePush(p1) = e.push
    BY <1>0, <2>2, <2>3, PushTrip
  <2>10. /\ e.history # Absent => ToCoreMessage(h1) = Named(e.history) /\ ToCoreMessage(h3) = Bare(Named(e.history))
         /\ e.message # Absent => ToCoreMessage(m1) = Named(e.message) /\ ToCoreMessage(m3) = Bare(Named(e.message))
    BY <1>0, <2>2
  <2>11. e.status # Absent => /\ ViaProto(t) => ToCoreStatus(s3) = SaidStatus(t, e.status)
                              /\ ~ViaProto(t) => ToCoreStatus(s1) = SaidStatus(t, e.status)
    BY <1>0, <1>2, <2>4, AbsentAssumption DEF SaidStatus, SaidMessage
  <2>12. /\ e.kind \in {"task", "status"} <=> e.status # Absent
         /\ e.kind = "message" <=> e.message # Absent
         /\ e.kind = "config" <=> e.push # Absent
         /\ e.history # Absent => e.kind = "task"
         /\ e.artifact # Absent => e.kind \in {"task", "artifact"}
         /\ e.kind = "artifact" => e.artifact # Absent
    BY DEF IsWhole
  <2> HIDE DEF old
  <2>13. /\ old.kind = e.kind /\ old.status = s1 /\ old.history = h1 /\ old.artifact = a1
         /\ old.message = m1 /\ old.push = p1 /\ old.final = f1
    BY <2>7
  <2>14. (e.status = Absent => s1 = Absent /\ s2 = Absent /\ s3 = Absent)
         /\ (e.message = Absent => m1 = Absent /\ m2 = Absent /\ m3 = Absent)
         /\ (e.push = Absent => p1 = Absent)
         /\ (e.status # Absent => s2 = ProtoStatus(s1) /\ s3 = FromProtoStatus(s2))
         /\ (e.history # Absent => h2 = ProtoMessage(h1) /\ h3 = FromProtoMessage(h2))
         /\ (e.message # Absent => m2 = ProtoMessage(m1) /\ m3 = FromProtoMessage(m2))
         /\ (e.artifact # Absent => a2 = ProtoPart(a1))
    OBVIOUS
  <2> HIDE DEF s1, s2, s3, h1, h2, h3, a1, a2, m1, m2, m3, p1, f1
  <2>15. old \in EventForms
    BY <1>0, <2>7, <2>8 DEF EventForms
  <2>16. CASE ~ViaProto(t)
    <3>1. Understood(t, Reply(t, e)) = ToCoreEvent(old)
      BY <1>2, <2>16 DEF Understood, Reply, old
    <3>2. /\ (IF old.kind \in {"task", "status"} THEN ToCoreStatus(old.status) ELSE old.status) = SaidStatus(t, e.status)
          /\ (IF old.kind = "task" /\ old.history # Absent THEN ToCoreMessage(old.history) ELSE old.history)
               = SaidMessage(t, e.history)
          /\ (IF \/ old.kind = "artifact"
                 \/ old.kind = "task" /\ old.artifact # Absent
              THEN ToCorePart(old.artifact) ELSE old.artifact) = e.artifact
          /\ (IF old.kind = "message" THEN ToCoreMessage(old.message) ELSE old.message) = SaidMessage(t, e.message)
          /\ (IF old.kind = "config" THEN ToCorePush(old.push) ELSE old.push) = e.push
          /\ (IF old.kind = "status" THEN FALSE ELSE old.final) = FALSE
      BY <1>2, <2>9, <2>10, <2>11, <2>12, <2>13, <2>14, <2>16 DEF SaidStatus, SaidMessage, f1
    <3> QED BY <2>13, <2>15, <3>1, <3>2, ToCoreEventSteps
  <2>17. CASE ViaProto(t)
    <3>1. Understood(t, Reply(t, e)) = ToCoreEvent(far)
      BY <1>2, <2>17 DEF Understood, Reply, ReplyProto, old
    <3> HIDE DEF sent
    <3>2. sent \in [kind : {e.kind}, status : {s2}, history : {h2}, artifact : {a2}, message : {m2},
                    push : {p1}, final : {f1}]
      <4>1. /\ (IF old.kind \in {"task", "status"} THEN ProtoStatus(old.status) ELSE old.status) = s2
            /\ (IF old.kind = "task" /\ old.history # Absent THEN ProtoMessage(old.history) ELSE old.history) = h2
            /\ (IF \/ old.kind = "artifact"
                   \/ old.kind = "task" /\ old.artifact # Absent
                THEN ProtoPart(old.artifact) ELSE old.artifact) = a2
            /\ (IF old.kind = "message" THEN ProtoMessage(old.message) ELSE old.message) = m2
        BY <2>9, <2>12, <2>13, <2>14
      <4> QED BY <2>13, <2>15, <4>1, ProtoEventSteps DEF sent
    <3>3. sent \in EventForms
      BY <1>0, <2>8, <3>2 DEF EventForms
    <3> HIDE DEF far
    <3>4. far \in [kind : {e.kind}, status : {s3}, history : {h3}, artifact : {a1}, message : {m3},
                   push : {p1}, final : {f1}]
      <4>0. /\ sent.kind = e.kind /\ sent.status = s2 /\ sent.history = h2 /\ sent.artifact = a2
            /\ sent.message = m2 /\ sent.push = p1 /\ sent.final = f1
        BY <3>2
      <4>1. /\ (IF sent.kind \in {"task", "status"} THEN FromProtoStatus(sent.status) ELSE sent.status) = s3
            /\ (IF sent.kind = "task" /\ sent.history # Absent THEN FromProtoMessage(sent.history) ELSE sent.history) = h3
            /\ (IF \/ sent.kind = "artifact"
                   \/ sent.kind = "task" /\ sent.artifact # Absent
                THEN FromProtoPart(sent.artifact) ELSE sent.artifact) = a1
            /\ (IF sent.kind = "message" THEN FromProtoMessage(sent.message) ELSE sent.message) = m3
        BY <2>9, <2>12, <2>14, <4>0
      <4> QED BY <3>3, <4>0, <4>1, FromProtoEventSteps DEF far
    <3>5. far \in EventForms
      BY <1>0, <2>8, <3>4 DEF EventForms
    <3>6. /\ far.kind = e.kind /\ far.status = s3 /\ far.history = h3 /\ far.artifact = a1
          /\ far.message = m3 /\ far.push = p1 /\ far.final = f1
      BY <3>4
    <3>7. /\ (IF far.kind \in {"task", "status"} THEN ToCoreStatus(far.status) ELSE far.status) = SaidStatus(t, e.status)
          /\ (IF far.kind = "task" /\ far.history # Absent THEN ToCoreMessage(far.history) ELSE far.history)
               = SaidMessage(t, e.history)
          /\ (IF \/ far.kind = "artifact"
                 \/ far.kind = "task" /\ far.artifact # Absent
              THEN ToCorePart(far.artifact) ELSE far.artifact) = e.artifact
          /\ (IF far.kind = "message" THEN ToCoreMessage(far.message) ELSE far.message) = SaidMessage(t, e.message)
          /\ (IF far.kind = "config" THEN ToCorePush(far.push) ELSE far.push) = e.push
          /\ (IF far.kind = "status" THEN FALSE ELSE far.final) = FALSE
      BY <1>2, <2>9, <2>10, <2>11, <2>12, <2>14, <2>17, <3>6 DEF SaidStatus, SaidMessage, f1
    <3> QED BY <3>1, <3>5, <3>6, <3>7, ToCoreEventSteps
  <2> QED BY <2>16, <2>17
<1> QED BY <1>1, <1>2

\* What the caller gets has the type of an event, and is what was yielded as far as 0.3 can say it.
LEMMA MessageSaid ==
    ASSUME NEW t \in Transports, NEW m \in Message \cup {Absent}
    PROVE  /\ SaidMessage(t, m) \in Message \cup {Absent}
           /\ m = Absent => SaidMessage(t, m) = Absent
           /\ m # Absent /\ t.legacy =>
                SaidMessage(t, m)
                  = [role |-> IF m.role = "unspecified" THEN "agent" ELSE m.role, part |-> m.part,
                     has |-> IF ViaProto(t) THEN m.has \ {"references"} ELSE m.has]
<1>1. m # Absent => Named(m) \in Message /\ Bare(Named(m)) \in Message
  BY MessageTrip
<1>2. m # Absent /\ t.legacy =>
        SaidMessage(t, m)
          = [role |-> IF m.role = "unspecified" THEN "agent" ELSE m.role, part |-> m.part,
             has |-> IF ViaProto(t) THEN m.has \ {"references"} ELSE m.has]
  <2>1. CASE ViaProto(t)
    BY <2>1 DEF SaidMessage, Named, Bare
  <2>2. CASE ~ViaProto(t)
    BY <2>2 DEF SaidMessage, Named
  <2> QED BY <2>1, <2>2
<1> QED BY <1>1, <1>2 DEF SaidMessage

\* What the caller gets of a message is what StreamIsFaithful allows it to get.
LEMMA MessageSame ==
    ASSUME T \in Transports, NEW m \in Message \cup {Absent}
    PROVE  SameMessage(m, SaidMessage(T, m))
<1>1. CASE ~T.legacy \/ m = Absent
  BY <1>1 DEF SameMessage, SaidMessage
<1>2. CASE T.legacy /\ m # Absent
  <2> DEFINE role == IF m.role = "unspecified" THEN "agent" ELSE m.role
             has  == IF ViaProto(T) THEN m.has \ {"references"} ELSE m.has
             b    == [m EXCEPT !.role = IF @ = "unspecified" THEN "agent" ELSE @,
                               !.has = IF ViaProto(T) THEN @ \ {"references"} ELSE @]
  <2>1. m \in Message
    BY <1>2
  <2>2. b \in [role : {role}, part : {m.part}, has : {has}]
    BY <2>1 DEF Message
  <2>4. SaidMessage(T, m) = b => SameMessage(m, SaidMessage(T, m))
    BY <1>2 DEF SameMessage
  <2> HIDE DEF b
  <2>3. SaidMessage(T, m) = [role |-> role, part |-> m.part, has |-> has]
    BY <1>2, MessageSaid
  <2> QED BY <1>2, <2>2, <2>3, <2>4
<1> QED BY <1>1, <1>2

\* What the caller gets of a status is a status; a blank message may be in it,
LEMMA StatusSaid ==
    ASSUME NEW t \in Transports, NEW s \in Status(Message) \cup {Absent}
    PROVE  SaidStatus(t, s) \in Status(Message \cup {BlankMessage}) \cup {Absent}
<1>1. CASE s = Absent
  BY <1>1 DEF SaidStatus
<1>2. CASE s # Absent
  <2>1. s.state \in State /\ s.message \in Message \cup {Absent} /\ s.timestamp \in BOOLEAN
    BY <1>2 DEF Status
  <2>2. SaidMessage(t, s.message) \in Message \cup {Absent}
    BY <2>1, MessageSaid
  <2>3. s \in [state : State, message : Message \cup {BlankMessage} \cup {Absent}, timestamp : BOOLEAN]
    BY <1>2 DEF Status
  <2> QED BY <1>2, <2>1, <2>2, <2>3 DEF SaidStatus, Status
<1> QED BY <1>1, <1>2

\* and is what StreamIsFaithful allows.
LEMMA StatusSame ==
    ASSUME T \in Transports, NEW s \in Status(Message) \cup {Absent}
    PROVE  SameStatus(s, SaidStatus(T, s))
<1>1. CASE s = Absent
  BY <1>1 DEF SaidStatus, SameStatus
<1>2. CASE s # Absent
  <2>1. s.message \in Message \cup {Absent}
    BY <1>2 DEF Status
  <2>2. SameMessage(s.message, SaidMessage(T, s.message))
    BY <2>1, MessageSame
  <2>3. SaidMessage(T, Absent) = Absent
    BY DEF SaidMessage
  <2>4. CASE ~T.legacy
    BY <1>2, <2>2, <2>4 DEF SaidStatus, SaidMessage, SameStatus
  <2>5. CASE T.legacy
    <3>1. SaidStatus(T, s) = [state |-> s.state, timestamp |-> IF ViaProto(T) THEN FALSE ELSE s.timestamp,
                              message |-> IF s.message # Absent THEN SaidMessage(T, s.message)
                                          ELSE IF ViaProto(T) THEN BlankMessage ELSE Absent]
      BY <1>2, <2>5 DEF SaidStatus
    <3>2. /\ SaidStatus(T, s).state = s.state
          /\ ViaProto(T) \/ SaidStatus(T, s).timestamp = s.timestamp
          /\ SaidStatus(T, s).message = SaidMessage(T, s.message) \/ (ViaProto(T) /\ s.message = Absent)
      <4>1. SaidStatus(T, s).state = s.state
        BY <3>1
      <4>2. ViaProto(T) \/ SaidStatus(T, s).timestamp = s.timestamp
        <5> DEFINE msg == IF s.message # Absent THEN SaidMessage(T, s.message)
                          ELSE IF ViaProto(T) THEN BlankMessage ELSE Absent
        <5>1. CASE ~ViaProto(T)
          <6>1. SaidStatus(T, s) = [state |-> s.state, timestamp |-> s.timestamp, message |-> msg]
            BY <3>1, <5>1
          <6> HIDE DEF msg
          <6>2. SaidStatus(T, s).timestamp = s.timestamp
            BY <6>1
          <6> QED BY <6>2
        <5> QED BY <5>1
      <4>3. SaidStatus(T, s).message = IF s.message # Absent THEN SaidMessage(T, s.message)
                                       ELSE IF ViaProto(T) THEN BlankMessage ELSE Absent
        BY <3>1
      <4>4. SaidStatus(T, s).message = SaidMessage(T, s.message) \/ (ViaProto(T) /\ s.message = Absent)
        BY <2>3, <4>3
      <4> QED BY <4>1, <4>2, <4>4
    <3> QED BY <1>2, <2>2, <3>2 DEF SameStatus
  <2> QED BY <2>4, <2>5
<1> QED BY <1>1, <1>2

\* An event that the request handler may yield.
Whole == {e \in Event(Message) : IsWhole(e)}

\* What the caller gets of an event is an event of the same kind,
LEMMA EventSaid ==
    ASSUME NEW t \in Transports, NEW e \in Whole
    PROVE  /\ Understood(t, Reply(t, e)) \in Event(Message \cup {BlankMessage})
           /\ Understood(t, Reply(t, e)).kind = e.kind
<1>1. /\ e.kind \in {"task", "status", "artifact", "message", "config", "other"}
      /\ e.status \in Status(Message) \cup {Absent} /\ e.history \in Message \cup {Absent}
      /\ e.artifact \in Part \cup {Absent} /\ e.message \in Message \cup {Absent}
      /\ e.push \in Push \cup {Absent}
  BY DEF Whole, Event
<1>2. /\ SaidStatus(t, e.status) \in Status(Message \cup {BlankMessage}) \cup {Absent}
      /\ SaidMessage(t, e.history) \in Message \cup {Absent}
      /\ SaidMessage(t, e.message) \in Message \cup {Absent}
  BY <1>1, StatusSaid, MessageSaid
<1>3. Understood(t, Reply(t, e))
        \in [kind : {e.kind}, status : {SaidStatus(t, e.status)},
             history : {SaidMessage(t, e.history)}, artifact : {e.artifact},
             message : {SaidMessage(t, e.message)}, push : {e.push}, final : {FALSE}]
  BY EventTrip DEF Whole
<1> QED BY <1>1, <1>2, <1>3 DEF Event

\* and is what StreamIsFaithful allows.
LEMMA EventSame ==
    ASSUME T \in Transports, NEW e \in Whole
    PROVE  SameEvent(e, Understood(T, Reply(T, e)))
<1>1. /\ e.status \in Status(Message) \cup {Absent} /\ e.history \in Message \cup {Absent}
      /\ e.message \in Message \cup {Absent} /\ e.final = FALSE
  BY DEF Whole, Event
<1>2. /\ SameStatus(e.status, SaidStatus(T, e.status))
      /\ SameMessage(e.history, SaidMessage(T, e.history))
      /\ SameMessage(e.message, SaidMessage(T, e.message))
  BY <1>1, StatusSame, MessageSame
<1> DEFINE b == Understood(T, Reply(T, e))
<1>3. b \in [kind : {e.kind}, status : {SaidStatus(T, e.status)},
             history : {SaidMessage(T, e.history)}, artifact : {e.artifact},
             message : {SaidMessage(T, e.message)}, push : {e.push}, final : {FALSE}]
  BY EventTrip DEF Whole
<1> HIDE DEF b
<1>4. /\ b.kind = e.kind /\ b.status = SaidStatus(T, e.status) /\ b.history = SaidMessage(T, e.history)
      /\ b.artifact = e.artifact /\ b.message = SaidMessage(T, e.message) /\ b.push = e.push
      /\ b.final = FALSE
  BY <1>3
<1>5. SameEvent(e, b)
  BY <1>1, <1>2, <1>4 DEF SameEvent
<1> QED BY <1>5 DEF b

-----------------------------------------------------------------------------
(* What the request handler gets of a request                              *)

Data == [message : Message \cup {Absent}, history : {"unset", "zero", "some"}, immediate : BOOLEAN,
         push : Push \cup {Absent}, fields : SUBSET {"metadata", "tenant"}]
Suits(o, d) == /\ o \in Sends                 <=> d.message # Absent
               /\ d.push # Absent              => o \in Sends \cup {"CreateConfig"}
               /\ o = "CreateConfig"           => d.push # Absent
               /\ d.history # "unset"          => o \in Sends \cup {"GetTask"}
               /\ d.immediate                  => o \in Sends
               /\ "metadata" \in d.fields      => o \in Sends \cup {"CancelTask"}

\* What the handler may be given for d: with 0.3 on the way, something is lost.
Kept(t, o, d, g) ==
    /\ g.immediate = d.immediate /\ g.push = d.push /\ g.fields \subseteq d.fields
    /\ d.fields \ g.fields \subseteq (IF t.legacy THEN {"tenant"} ELSE {})
         \cup (IF o = "CancelTask" /\ (t.binding = "HTTP+JSON" \/ ViaProto(t)) THEN {"metadata"} ELSE {})
    /\ g.history = d.history \/ (ViaProto(t) /\ {g.history, d.history} = {"unset", "zero"})
    /\ o \in Sends => g.message = SaidMessage(t, d.message)

\* A request to send, through 0.3,
LEMMA SendTrip ==
    ASSUME NEW t \in Transports, t.legacy, NEW o \in Sends, NEW d \in Data, Suits(o, d)
    PROVE  Kept(t, o, d, Read(t, o, Written(t, o, d)))
<1> DEFINE m1 == ToCompatMessage(d.message)
           m2 == ProtoMessage(m1)
           m3 == FromProtoMessage(m2)
           p1 == IF d.push = Absent THEN Absent ELSE ToCompatPush(d.push)
           f  == d.fields \cap {"metadata"}
           b  == IF d.immediate THEN FALSE ELSE TRUE
           r1 == ToCompatRequest(o, d)
<1>0. /\ d.message \in Message /\ d.push \in Push \cup {Absent} /\ d.fields \subseteq {"metadata", "tenant"}
      /\ d.history \in {"unset", "zero", "some"} /\ d.immediate \in BOOLEAN
  BY DEF Data, Suits
<1>1. /\ ToCoreMessage(m1) = Named(d.message) /\ ToCoreMessage(m3) = Bare(Named(d.message))
      /\ m2 # Absent /\ d.message # Absent
  BY <1>0, MessageTrip
<1>2. (p1 = Absent <=> d.push = Absent) /\ (d.push # Absent => ToCorePush(p1) = d.push)
  BY <1>0, PushTrip
<1>3. r1 \in [message : {m1}, history : {d.history}, blocking : {b}, push : {p1}, fields : {f}]
  BY <1>0 DEF ToCompatRequest, ToCompatSend, ToCompatConfiguration, Blank03, Option, Sends
<1> HIDE DEF m1, m2, m3, p1, f, b, r1
<1>4. \A r : (\E m, h : r \in [message : {m}, history : {h}, blocking : {b}, push : {p1}, fields : {f}])
             => ToCoreRequest(o, r)
                  \in [message : {ToCoreMessage(r.message)}, history : {r.history}, immediate : {d.immediate},
                       push : {d.push}, fields : {f}]
  <2> SUFFICES ASSUME NEW r, NEW m, NEW h,
                      r \in [message : {m}, history : {h}, blocking : {b}, push : {p1}, fields : {f}]
               PROVE  ToCoreRequest(o, r)
                        \in [message : {ToCoreMessage(r.message)}, history : {r.history},
                             immediate : {d.immediate}, push : {d.push}, fields : {f}]
    OBVIOUS
  <2>1. ToCoreRequest(o, r) = ToCoreSend(r)
    BY DEF ToCoreRequest, Sends
  <2>2. (~b) = d.immediate
    BY <1>0 DEF b
  <2>3. Option(r.push, ToCorePush) = d.push
    BY <1>2 DEF Option
  <2>4. ToCoreSend(r) \in [message : {ToCoreMessage(r.message)}, history : {r.history},
                           immediate : {~b}, push : {Option(r.push, ToCorePush)}, fields : {f}]
    BY DEF ToCoreSend, ToCoreConfiguration, Blank10, f
  <2> QED BY <2>1, <2>2, <2>3, <2>4
<1>5. f \subseteq d.fields /\ d.fields \ f \subseteq {"tenant"}
  BY <1>0 DEF f
<1>6. o # "CancelTask" /\ o # "GetTask"
  BY DEF Sends
<1>7. CASE ~ViaProto(t)
  <2> DEFINE g == ToCoreRequest(o, r1)
  <2>1. Read(t, o, Written(t, o, d)) = g
    BY <1>7 DEF Read, Written, ViaProto, Transports, Bindings, r1
  <2>2. r1.message = m1 /\ r1.history = d.history
    BY <1>3
  <2>3. g \in [message : {Named(d.message)}, history : {d.history}, immediate : {d.immediate},
               push : {d.push}, fields : {f}]
    BY <1>1, <1>3, <1>4, <2>2
  <2> HIDE DEF g
  <2>4. SaidMessage(t, d.message) = Named(d.message)
    BY <1>1, <1>7 DEF SaidMessage
  <2> QED BY <1>5, <2>1, <2>3, <2>4 DEF Kept
<1>8. CASE ViaProto(t)
  <2> DEFINE r2 == ProtoSend(r1)
             r3 == FromProtoSend(r2)
             g  == ToCoreRequest(o, r3)
             h  == ProtoHistory(d.history)
  <2>1. Read(t, o, Written(t, o, d)) = g
    <3>1. Written(t, o, d) = r2
      BY <1>6, <1>8 DEF Written, WrittenProto, r1
    <3>2. t.binding \in {"HTTP+JSON", "GRPC"}
      BY <1>8 DEF ViaProto, Transports, Bindings
    <3> HIDE DEF r2
    <3>3. Read(t, o, r2) = g
      BY <1>6, <3>2 DEF Read, ReadRest03, ReadGrpc03
    <3> QED BY <3>1, <3>3
  <2>2. r2 \in [message : {m2}, history : {h}, blocking : {b}, push : {p1}, fields : {f}]
    BY <1>3 DEF ProtoSend, ProtoConfiguration, m2
  <2> HIDE DEF r2
  <2>3. r3 \in [message : {m3}, history : {h}, blocking : {b}, push : {p1}, fields : {f}]
    BY <2>2 DEF FromProtoSend, m3
  <2> HIDE DEF r3
  <2>4. r3.message = m3 /\ r3.history = h
    BY <2>3
  <2>5. g \in [message : {Bare(Named(d.message))}, history : {h}, immediate : {d.immediate},
               push : {d.push}, fields : {f}]
    BY <1>1, <1>4, <2>3, <2>4
  <2> HIDE DEF g
  <2>6. SaidMessage(t, d.message) = Bare(Named(d.message))
    BY <1>1, <1>8 DEF SaidMessage
  <2>7. h = d.history \/ {h, d.history} = {"unset", "zero"}
    BY DEF ProtoHistory
  <2> QED BY <1>5, <1>8, <2>1, <2>5, <2>6, <2>7 DEF Kept
<1> QED BY <1>7, <1>8

\* and every request, through every transport.
LEMMA RequestTrip ==
    ASSUME NEW t \in Transports, NEW o \in Ops, NEW d \in Data, Suits(o, d)
    PROVE  Kept(t, o, d, Read(t, o, Written(t, o, d)))
<1> DEFINE f == d.fields \cap {"metadata"}
           r == Written(t, o, d)
           g == Read(t, o, r)
<1>g. g = Read(t, o, Written(t, o, d))
  OBVIOUS
<1>0. /\ d.message \in Message \cup {Absent} /\ d.push \in Push \cup {Absent}
      /\ d.fields \subseteq {"metadata", "tenant"}
      /\ d.history \in {"unset", "zero", "some"} /\ d.immediate \in BOOLEAN
  BY DEF Data
<1>1. CASE ~t.legacy
  <2>1. r = d
    BY <1>1 DEF Written
  <2>2. g = IF t.binding = "HTTP+JSON" /\ o = "CancelTask" THEN WithoutMetadata(d) ELSE d
    BY <1>1, <2>1 DEF Read, ReadRest10, Transports, Bindings
  <2>3. g \in [message : {d.message}, history : {d.history}, immediate : {d.immediate}, push : {d.push},
               fields : {IF t.binding = "HTTP+JSON" /\ o = "CancelTask" THEN d.fields \ {"metadata"} ELSE d.fields}]
    BY <2>2 DEF Data, WithoutMetadata
  <2> HIDE DEF g
  <2> QED BY <1>g, <1>1, <2>3 DEF Kept, SaidMessage
<1>2. CASE t.legacy /\ o \in Sends
  BY <1>2, SendTrip
<1>3. CASE t.legacy /\ o \notin Sends
  <2>1. /\ d.message = Absent /\ d.immediate = FALSE
        /\ d.push # Absent <=> o = "CreateConfig"
        /\ o # "GetTask" => d.history = "unset"
        /\ o # "CancelTask" => d.fields \subseteq {"tenant"}
    BY <1>0, <1>3 DEF Suits
  <2>2. CASE o = "GetTask"
    <3> DEFINE h1 == IF t.binding = "GRPC" THEN ProtoHistory(d.history) ELSE d.history
               h2 == IF t.binding = "GRPC" /\ h1 = "zero" THEN "unset" ELSE h1
    <3>1. r \in [message : {Absent}, history : {h1}, blocking : {TRUE}, push : {Absent}, fields : {{}}]
      BY <1>3, <2>2 DEF Written, WrittenProto, ProtoQuery, ToCompatRequest, ToCompatQuery, Blank03, ViaProto, Sends
    <3> HIDE DEF r, h1
    <3>2. (IF t.binding = "GRPC" THEN FromProtoQuery(r) ELSE r).history = h2
      BY <3>1 DEF FromProtoQuery
    <3>3. g = ToCoreQuery(IF t.binding = "GRPC" THEN FromProtoQuery(r) ELSE r)
      BY <1>3, <2>2 DEF Read, ReadRest03, ReadGrpc03, ToCoreRequest, Transports, Bindings, Sends
    <3>4. g \in [message : {Absent}, history : {h2}, immediate : {FALSE}, push : {Absent}, fields : {{}}]
      BY <3>2, <3>3 DEF ToCoreQuery, Blank10
    <3> HIDE DEF g
    <3>5. h2 = d.history \/ (ViaProto(t) /\ {h2, d.history} = {"unset", "zero"})
      BY <1>0, <1>3 DEF h1, ProtoHistory, ViaProto
    <3> QED BY <1>g, <1>0, <1>3, <2>1, <2>2, <3>4, <3>5 DEF Kept
  <2>3. CASE o = "CancelTask"
    <3> DEFINE f1 == IF ViaProto(t) THEN {} ELSE f
    <3>1. r \in [message : {Absent}, history : {"unset"}, blocking : {TRUE}, push : {Absent}, fields : {f1}]
      BY <1>3, <2>3 DEF Written, WrittenProto, WithoutMetadata, ToCompatRequest, ToCompatCancel, Blank03, ViaProto, Sends
    <3> HIDE DEF r
    <3>2. g = ToCoreCancel(r)
      BY <1>3, <2>3 DEF Read, ReadRest03, ReadGrpc03, ToCoreRequest, Transports, Bindings, Sends
    <3>3. g \in [message : {Absent}, history : {"unset"}, immediate : {FALSE}, push : {Absent}, fields : {f1}]
      BY <3>1, <3>2 DEF ToCoreCancel, Blank10
    <3> HIDE DEF g
    <3>4. f1 \subseteq d.fields /\ d.fields \ f1 \subseteq {"tenant"} \cup IF ViaProto(t) THEN {"metadata"} ELSE {}
      BY <1>0
    <3> HIDE DEF f1
    <3> QED BY <1>g, <1>0, <1>3, <2>1, <2>3, <3>3, <3>4 DEF Kept
  <2>4. CASE o = "CreateConfig"
    <3> DEFINE p1 == ToCompatPush(d.push)
    <3>1. d.push \in Push /\ ToCorePush(p1) = d.push
      BY <1>0, <2>1, <2>4, PushTrip
    <3>2. r \in [message : {Absent}, history : {"unset"}, blocking : {TRUE}, push : {p1}, fields : {{}}]
      BY <1>3, <2>4 DEF Written, WrittenProto, ToCompatRequest, ToCompatCreate, Blank03, ViaProto, Sends
    <3> HIDE DEF r, p1
    <3>3. g = ToCoreCreate(r)
      BY <1>3, <2>4 DEF Read, ReadRest03, ReadGrpc03, ToCoreRequest, Transports, Bindings, Sends
    <3>4. g \in [message : {Absent}, history : {"unset"}, immediate : {FALSE}, push : {d.push}, fields : {{}}]
      BY <3>1, <3>2, <3>3 DEF ToCoreCreate, Blank10
    <3> HIDE DEF g
    <3> QED BY <1>g, <1>0, <1>3, <2>1, <2>4, <3>4 DEF Kept
  <2>5. CASE o \notin {"GetTask", "CancelTask", "CreateConfig"}
    <3>1. r = Blank03
      BY <1>3, <2>5 DEF Written, WrittenProto, ToCompatRequest, ToCompatConfigId, ToCompatTaskId, Sends
    <3> HIDE DEF r
    <3>2. g = Blank10
      BY <1>3, <2>5, <3>1 DEF Read, ReadRest03, ReadGrpc03, ToCoreRequest, ToCoreConfigId, ToCoreTaskId,
                              Transports, Bindings, Sends
    <3>3. /\ g.history = "unset" /\ g.immediate = FALSE /\ g.push = Absent /\ g.fields = {}
      BY <3>2 DEF Blank10
    <3> HIDE DEF g
    <3> QED BY <1>g, <1>0, <1>3, <2>1, <2>5, <3>3 DEF Kept
  <2> QED BY <2>2, <2>3, <2>4, <2>5
<1> QED BY <1>1, <1>2, <1>3

-----------------------------------------------------------------------------
(* The transport that the client takes                                     *)

\* The least of a set of numbers is one of them: what First returns.
LEMMA LeastIn ==
    ASSUME NEW at \in SUBSET Nat, at # {}
    PROVE  Least(at) \in at
<1>1. IsWellFoundedOn(OpToRel(<, Nat), Nat)
  BY NatLessThanWellFounded
<1>2. PICK n \in at : \A m \in at : <<m, n>> \notin OpToRel(<, Nat)
  BY <1>1, WFMin
<1>3. \A m \in at : n <= m
  <2>1. \A m \in at : ~(m < n)
    BY <1>2 DEF OpToRel
  <2> QED BY <2>1
<1> QED BY <1>3 DEF Least

\* The interface found is one of the list.
LEMMA FoundInList ==
    ASSUME NEW list, DOMAIN list \subseteq Nat, NEW b, FindBestInterface(list, b) # <<>>
    PROVE  \E n \in DOMAIN list : FindBestInterface(list, b) = <<list[n]>>
<1> DEFINE Is10(i)    == i.binding = b /\ i.version = 10
           Newer(i)   == i.binding = b /\ i.version > 10
           Least03(i) == i.binding = b /\ i.version >= 3
           Silent(i)  == i.binding = b /\ i.version = Unversioned
           In(f)      == f = <<>> \/ \E n \in DOMAIN list : f = <<list[n]>>
<1>1. In(First(list, Is10))
  <2> DEFINE at == {n \in DOMAIN list : Is10(list[n])}
  <2>1. at # {} => Least(at) \in at
    BY LeastIn
  <2> QED BY <2>1 DEF First
<1>2. In(First(list, Newer))
  <2> DEFINE at == {n \in DOMAIN list : Newer(list[n])}
  <2>1. at # {} => Least(at) \in at
    BY LeastIn
  <2> QED BY <2>1 DEF First
<1>3. In(First(list, Least03))
  <2> DEFINE at == {n \in DOMAIN list : Least03(list[n])}
  <2>1. at # {} => Least(at) \in at
    BY LeastIn
  <2> QED BY <2>1 DEF First
<1>4. In(First(list, Silent))
  <2> DEFINE at == {n \in DOMAIN list : Silent(list[n])}
  <2>1. at # {} => Least(at) \in at
    BY LeastIn
  <2> QED BY <2>1 DEF First
<1>5. FindBestInterface(list, b)
        = Else(First(list, Is10), Else(First(list, Newer), Else(First(list, Least03), First(list, Silent))))
  BY DEF FindBestInterface
<1> HIDE DEF Is10, Newer, Least03, Silent
<1> QED BY <1>1, <1>2, <1>3, <1>4, <1>5 DEF Else

\* The client's transport is that of an interface it read.
LEMMA ChosenInList ==
    ASSUME NEW w, Chosen(w) # <<>>, DOMAIN Parsed(w).interfaces \subseteq Nat
    PROVE  \E n \in DOMAIN Parsed(w).interfaces :
             Chosen(w)[1] = [binding |-> Parsed(w).interfaces[n].binding,
                             legacy |-> IsLegacy(Parsed(w).interfaces[n].version)]
<1> DEFINE list == Parsed(w).interfaces
           i    == Select(list, w.bindings, w.prefer)
<1>1. /\ i # <<>>
      /\ Chosen(w) = <<[binding |-> i[1].binding, legacy |-> IsLegacy(i[1].version)]>>
  BY DEF Chosen, Transport
<1> HIDE DEF list
<1>2. PICK b : i = FindBestInterface(list, b)
  BY <1>1 DEF Select
<1> HIDE DEF i
<1>3. PICK n \in DOMAIN list : i = <<list[n]>>
  BY <1>1, <1>2, FoundInList DEF list
<1>4. i[1] = list[n]
  BY <1>3
<1> QED BY <1>1, <1>4 DEF list

\* An old form of a card exists when it has an interface for 0.3, whose version is a legacy one.
LEMMA CompatCard ==
    ASSUME NEW k \in Card
    PROVE  /\ DOMAIN k.interfaces \subseteq Nat
           /\ \A n \in DOMAIN k.interfaces : k.interfaces[n] \in Interface
           /\ (\E n \in DOMAIN k.interfaces : IsLegacy(k.interfaces[n].version)) => ToCompatCard(k) # <<>>
           /\ ToCompatCard(k) # <<>> =>
                /\ k.interfaces # <<>>
                /\ IsLegacy(ToCompatCard(k)[1].version)
                /\ DOMAIN ToCompatCard(k)[1].bindings \subseteq Nat
                /\ \A n \in DOMAIN ToCompatCard(k)[1].bindings : ToCompatCard(k)[1].bindings[n] \in Bindings
                /\ ToCompatCard(k)[1].capabilities = [streaming |-> k.streaming]
                /\ ToCompatCard(k)[1].supportsExtended = k.extended
<1> DEFINE Old(i)  == i.version = Unversioned \/ IsLegacy(i.version)
           old     == {n \in DOMAIN k.interfaces : Old(k.interfaces[n])}
           primary == k.interfaces[Least(old)]
           one     == [version          |-> IF primary.version = Unversioned THEN 3 ELSE primary.version,
                       bindings         |-> [n \in old |-> ToCompatInterface(k.interfaces[n])],
                       capabilities     |-> ToCompatCapabilities(k),
                       supportsExtended |-> k.extended]
<1>1. ToCompatCard(k) = IF old = {} THEN <<>> ELSE <<one>>
  BY DEF ToCompatCard
<1>2. k.interfaces \in Seq(Interface)
  BY DEF Card
<1>3. /\ DOMAIN k.interfaces \subseteq Nat
      /\ \A n \in DOMAIN k.interfaces : k.interfaces[n] \in Interface
  BY <1>2
<1>4. ASSUME NEW n \in DOMAIN k.interfaces, IsLegacy(k.interfaces[n].version) PROVE old # {}
  BY <1>4
<1>5. ASSUME old # {}
      PROVE  /\ k.interfaces # <<>>
             /\ one.version \in 3..9
             /\ \A n \in old : k.interfaces[n].binding \in Bindings
  <2>1. Least(old) \in old
    <3>1. old \in SUBSET Nat
      BY <1>3
    <3> HIDE DEF old
    <3> QED BY <1>5, <3>1, LeastIn
  <2>2. k.interfaces # <<>>
    BY <1>2, <2>1
  <2>3. primary.version \in Nat /\ (primary.version = Unversioned \/ IsLegacy(primary.version))
    BY <1>3, <2>1 DEF Interface
  <2>4. one.version = IF primary.version = Unversioned THEN 3 ELSE primary.version
    OBVIOUS
  <2>5. \A n \in old : k.interfaces[n].binding \in Bindings
    BY <1>3 DEF Interface
  <2> HIDE DEF primary, one, old
  <2>6. one.version \in 3..9
    BY <2>3, <2>4 DEF IsLegacy
  <2> QED BY <2>2, <2>5, <2>6
<1>6. /\ one.bindings = [n \in old |-> k.interfaces[n].binding]
      /\ one.capabilities = [streaming |-> k.streaming] /\ one.supportsExtended = k.extended
  BY DEF ToCompatInterface, ToCompatCapabilities
<1>7. old \subseteq Nat
  BY <1>3
<1> HIDE DEF one, old
<1>8. old # {} => ToCompatCard(k)[1] = one /\ ToCompatCard(k) # <<>>
  BY <1>1
<1>9. old = {} => ToCompatCard(k) = <<>>
  BY <1>1
<1>10. (\E n \in DOMAIN k.interfaces : IsLegacy(k.interfaces[n].version)) => ToCompatCard(k) # <<>>
  BY <1>4, <1>8
<1>11. ASSUME ToCompatCard(k) # <<>>
       PROVE  /\ k.interfaces # <<>>
              /\ IsLegacy(one.version)
              /\ DOMAIN one.bindings \subseteq Nat
              /\ \A n \in DOMAIN one.bindings : one.bindings[n] \in Bindings
              /\ one.capabilities = [streaming |-> k.streaming] /\ one.supportsExtended = k.extended
              /\ ToCompatCard(k)[1] = one
  <2>1. old # {}
    BY <1>9, <1>11
  <2>2. IsLegacy(one.version)
    BY <1>5, <2>1 DEF IsLegacy
  <2>3. DOMAIN one.bindings = old /\ \A n \in old : one.bindings[n] = k.interfaces[n].binding
    BY <1>6
  <2> QED BY <1>5, <1>6, <1>7, <1>8, <2>1, <2>2, <2>3
<1> QED BY <1>3, <1>10, <1>11

\* Whatever the card offers, the client's transport is one the server has an endpoint for.
LEMMA ChosenServed ==
    ASSUME NEW w, IsWorld(w)
    PROVE  /\ Chosen(w)[1] \in Transports
           /\ Chosen(w)[1].legacy => w.compat /\ ToCompatCard(w.extendedCard) # <<>>
           /\ ~Chosen(w)[1].legacy => ~w.old
           /\ Parsed(w).streaming \in BOOLEAN /\ Parsed(w).extended \in BOOLEAN
<1> DEFINE k    == w.card
           dict == IF w.old THEN OldDict(k) ELSE CardToDict(k)
           list == Parsed(w).interfaces
<1>1. k \in Card
  BY DEF IsWorld
<1>2. /\ dict.supported = IF w.old THEN <<>> ELSE k.interfaces
      /\ dict.legacy = ToCompatCard(k) /\ dict.streaming = k.streaming
      /\ dict.extended = IF w.old THEN <<>> ELSE <<k.extended>>
  BY DEF OldDict, CardToDict
<1>3. /\ Parsed(w).interfaces = ParseConnection(dict) /\ Parsed(w).streaming = dict.streaming
      /\ Parsed(w).extended = ParseExtended(dict)
  BY DEF Parsed, ParseCard
<1> HIDE DEF dict
<1>a. Chosen(w) # <<>> /\ (ToCompatCard(k) = <<>> \/ ToCompatCard(w.extendedCard) # <<>>)
  BY DEF IsWorld
<1>4. CASE dict.supported # <<>>
  <2>1. ~w.old /\ list = k.interfaces
    BY <1>2, <1>3, <1>4 DEF ParseConnection
  <2>2. PICK n \in DOMAIN list : Chosen(w)[1] = [binding |-> list[n].binding, legacy |-> IsLegacy(list[n].version)]
    BY <1>1, <1>a, <2>1, ChosenInList, CompatCard
  <2>3. list[n].binding \in Bindings /\ list[n].version \in Nat
    BY <1>1, <2>1, CompatCard DEF Interface
  <2>4. IsLegacy(list[n].version) => w.compat
    BY <2>1, <2>3 DEF IsLegacy, IsWorld
  <2>5. IsLegacy(list[n].version) => ToCompatCard(k) # <<>>
    BY <1>1, <2>1, CompatCard
  <2>6. IsLegacy(list[n].version) \in BOOLEAN
    BY DEF IsLegacy
  <2>7. Parsed(w).streaming \in BOOLEAN /\ Parsed(w).extended \in BOOLEAN
    BY <1>1, <1>2, <1>3, <2>1 DEF ParseExtended, Card
  <2> DEFINE t == Chosen(w)[1]
  <2>8. t \in [binding : Bindings, legacy : {IsLegacy(list[n].version)}]
    BY <2>2, <2>3
  <2> HIDE DEF t
  <2>9. t.legacy = IsLegacy(list[n].version)
    BY <2>8
  <2>10. t \in Transports
    BY <2>6, <2>8 DEF Transports
  <2>11. t.legacy => w.compat /\ ToCompatCard(w.extendedCard) # <<>>
    <3>1. t.legacy => IsLegacy(list[n].version)
      BY <2>9, Zenon
    <3> QED BY <1>a, <2>4, <2>5, <3>1
  <2> QED BY <2>1, <2>7, <2>10, <2>11 DEF t
<1>5. CASE dict.supported = <<>> /\ ToCompatCard(k) # <<>>
  <2> DEFINE one == ToCompatCard(k)[1]
  <2>1. w.old
    BY <1>1, <1>2, <1>5, CompatCard
  <2>2. list = [n \in DOMAIN one.bindings |-> [binding |-> one.bindings[n], version |-> one.version]]
    BY <1>2, <1>3, <1>5 DEF ParseConnection
  <2>3. /\ IsLegacy(one.version) /\ DOMAIN one.bindings \subseteq Nat
        /\ \A n \in DOMAIN one.bindings : one.bindings[n] \in Bindings
        /\ one.supportsExtended = k.extended
    BY <1>1, <1>5, CompatCard
  <2>4. PICK n \in DOMAIN list : Chosen(w)[1] = [binding |-> list[n].binding, legacy |-> IsLegacy(list[n].version)]
    <3>1. DOMAIN list \subseteq Nat
      BY <2>2, <2>3
    <3> QED BY <1>a, <3>1, ChosenInList
  <2> HIDE DEF one
  <2>5. list[n].binding \in Bindings /\ IsLegacy(list[n].version)
    BY <2>2, <2>3, <2>4
  <2>6. Parsed(w).streaming \in BOOLEAN /\ Parsed(w).extended \in BOOLEAN
    BY <1>1, <1>2, <1>3, <1>5, <2>1, <2>3 DEF ParseExtended, Card, one
  <2>7. Chosen(w)[1] = [binding |-> list[n].binding, legacy |-> TRUE]
    BY <2>4, <2>5
  <2>8. w.compat
    BY <2>1 DEF IsWorld
  <2> QED BY <1>5, <1>a, <2>5, <2>6, <2>7, <2>8 DEF Transports
<1>6. CASE dict.supported = <<>> /\ ToCompatCard(k) = <<>>
  <2>1. list = <<>>
    BY <1>2, <1>3, <1>6 DEF ParseConnection
  <2>2. DOMAIN list = {}
    BY <2>1
  <2> QED BY <1>a, <2>2, ChosenInList
<1> QED BY <1>4, <1>5, <1>6

-----------------------------------------------------------------------------
(* The endpoint that a request reaches                                     *)

VerbMatters(t, o) == t.legacy /\ t.binding = "HTTP+JSON" /\ o = "SubscribeToTask"

\* A target whose routes all lead to one operation.
LEMMA OfferedOne ==
    ASSUME NEW x, NEW o, \A r \in Routes : r[1] = x => r[2] = o, \E r \in Routes : r[1] = x /\ r[2] = o
    PROVE  Offered(x) = {o}
BY DEF Offered

\* The tables of the client transports whose methods have the names of their operations.
LEMMA Tables ==
    ASSUME NEW t \in Transports, NEW v
    PROVE  LET f == Targets(t, v)
           IN  /\ t.binding = "JSONRPC" /\ ~t.legacy => DOMAIN f = Ops /\ \A o \in Ops : f[o] = o
               /\ t.binding = "GRPC" /\ ~t.legacy => DOMAIN f = Ops /\ \A o \in Ops : f[o] = Method10(o)
               /\ t.binding = "GRPC" /\ t.legacy =>
                    /\ DOMAIN f = Ops \ {"ListTasks"}
                    /\ \A o \in Ops \ {"ListTasks"} : f[o] = Method03(o)
<1>1. CASE t.binding = "JSONRPC" /\ ~t.legacy
  <2>1. Targets(t, v) = Both(JsonRpcTasks10, JsonRpcOthers10)
    BY <1>1 DEF Targets
  <2> QED BY <1>1, <2>1 DEF Both, JsonRpcTasks10, JsonRpcOthers10, Ops
<1>2. CASE t.binding = "GRPC" /\ ~t.legacy
  <2>1. Targets(t, v) = Both(GrpcTasks10, GrpcOthers10)
    BY <1>2 DEF Targets
  <2>2. Ops = (Tasks \cup {"SubscribeToTask"}) \cup (Configs \cup {"GetExtendedAgentCard"})
    BY DEF Ops, Others
  <2> QED BY <1>2, <2>1, <2>2 DEF Both, GrpcTasks10, GrpcOthers10
<1>3. CASE t.binding = "GRPC" /\ t.legacy
  <2>1. Targets(t, v) = Both(GrpcTasks03, GrpcOthers03)
    BY <1>3 DEF Targets
  <2>2. Ops \ {"ListTasks"} = (Sends \cup {"SubscribeToTask", "GetTask", "CancelTask"})
                              \cup (Configs \cup {"GetExtendedAgentCard"})
    BY DEF Ops, Others, Tasks, Sends, Configs
  <2> QED BY <1>3, <2>1, <2>2 DEF Both, GrpcTasks03, GrpcOthers03
<1> QED BY <1>1, <1>2, <1>3 DEF Transports, Bindings

\* The parts of a route.
LEMMA Pair ==
    ASSUME NEW a, NEW b, NEW r, r = <<a, b>>
    PROVE  r[1] = a /\ r[2] = b
OBVIOUS

\* No two operations share a path and a verb, in 1.0,
LEMMA RestPath10 ==
    ASSUME NEW a, NEW p, NEW u, NEW w, <<<<a, p>>, u>> \in Routes10, <<<<a, p>>, w>> \in Routes10
    PROVE  u = w
<1>1. CASE p = "/message:send"
  BY <1>1 DEF Routes10
<1>2. CASE p = "/message:stream"
  BY <1>2 DEF Routes10
<1>3. CASE p = "/tasks/{id}:cancel"
  BY <1>3 DEF Routes10
<1>4. CASE p = "/tasks/{id}:subscribe"
  BY <1>4 DEF Routes10
<1>5. CASE p = "/tasks/{id}"
  BY <1>5 DEF Routes10
<1>6. CASE p = "/tasks"
  BY <1>6 DEF Routes10
<1>7. CASE p = "/extendedAgentCard"
  BY <1>7 DEF Routes10
<1>8. CASE p = "/tasks/{id}/configs" /\ a = "GET"
  BY <1>8 DEF Routes10
<1>9. CASE p = "/tasks/{id}/configs" /\ a # "GET"
  BY <1>9 DEF Routes10
<1>10. CASE p = "/tasks/{id}/configs/{push}" /\ a = "GET"
  BY <1>10 DEF Routes10
<1>11. CASE p = "/tasks/{id}/configs/{push}" /\ a # "GET"
  BY <1>11 DEF Routes10
<1>12. p \in {"/message:send", "/message:stream", "/tasks/{id}:cancel", "/tasks/{id}:subscribe", "/tasks/{id}", "/tasks", "/extendedAgentCard", "/tasks/{id}/configs", "/tasks/{id}/configs/{push}"}
  BY DEF Routes10
<1> QED BY <1>1, <1>2, <1>3, <1>4, <1>5, <1>6, <1>7, <1>8, <1>9, <1>10, <1>11, <1>12

\* in 0.3,
LEMMA RestPath03 ==
    ASSUME NEW a, NEW p, NEW u, NEW w, <<<<a, p>>, u>> \in Routes03({}), <<<<a, p>>, w>> \in Routes03({})
    PROVE  u = w
<1>1. CASE p = "/v1/message:send"
  BY <1>1 DEF Routes03
<1>2. CASE p = "/v1/message:stream"
  BY <1>2 DEF Routes03
<1>3. CASE p = "/v1/tasks/{id}:cancel"
  BY <1>3 DEF Routes03
<1>4. CASE p = "/v1/tasks/{id}"
  BY <1>4 DEF Routes03
<1>5. CASE p = "/v1/tasks/{id}/configs/{push}"
  BY <1>5 DEF Routes03
<1>6. CASE p = "/v1/card"
  BY <1>6 DEF Routes03
<1>7. CASE p = "/v1/tasks/{id}/configs" /\ a = "GET"
  BY <1>7 DEF Routes03
<1>8. CASE p = "/v1/tasks/{id}/configs" /\ a # "GET"
  BY <1>8 DEF Routes03
<1>9. p \in {"/v1/message:send", "/v1/message:stream", "/v1/tasks/{id}:cancel", "/v1/tasks/{id}", "/v1/tasks/{id}/configs/{push}", "/v1/card", "/v1/tasks/{id}/configs"}
  BY DEF Routes03
<1> QED BY <1>1, <1>2, <1>3, <1>4, <1>5, <1>6, <1>7, <1>8, <1>9

\* or between the two.
Subscribe03 == "/v1/tasks/{id}:subscribe"
\* The routes of the two REST tables: a path and verb lead to one operation, and the path of a
\* subscription of 0.3 is its own.
LEMMA RestPaths ==
    /\ \A r \in Routes10 : \E a, p, u : r = <<<<a, p>>, u>>
    /\ \A a, p, u, w : <<<<a, p>>, u>> \in Routes10 /\ <<<<a, p>>, w>> \in Routes10 => u = w
    /\ \A a, p, u : <<<<a, p>>, u>> \in Routes10 => p # Subscribe03
    /\ \A r \in Routes03({}) : \E a, p, u : r = <<<<a, p>>, u>>
    /\ \A a, p, u, w : <<<<a, p>>, u>> \in Routes03({}) /\ <<<<a, p>>, w>> \in Routes03({}) => u = w
    /\ \A a, p, u : <<<<a, p>>, u>> \in Routes03({}) => p # Subscribe03
    /\ \A a, p, u, w : <<<<a, p>>, u>> \in Routes10 => <<<<a, p>>, w>> \notin Routes03({})
<1>1. \A r \in Routes10 : \E a, p, u : r = <<<<a, p>>, u>>
  BY DEF Routes10
<1>2. \A a, p, u, w : <<<<a, p>>, u>> \in Routes10 /\ <<<<a, p>>, w>> \in Routes10 => u = w
  BY RestPath10
<1>3. \A a, p, u : <<<<a, p>>, u>> \in Routes10 => p # Subscribe03
  BY DEF Routes10, Subscribe03
<1>4. \A r \in Routes03({}) : \E a, p, u : r = <<<<a, p>>, u>>
  BY DEF Routes03
<1>5. \A a, p, u, w : <<<<a, p>>, u>> \in Routes03({}) /\ <<<<a, p>>, w>> \in Routes03({}) => u = w
  BY RestPath03
<1>6. \A a, p, u : <<<<a, p>>, u>> \in Routes03({}) => p # Subscribe03
  BY DEF Routes03, Subscribe03
<1>7. \A a, p, u, w : <<<<a, p>>, u>> \in Routes10 => <<<<a, p>>, w>> \notin Routes03({})
  BY DEF Routes10, Routes03
<1> QED BY <1>1, <1>2, <1>3, <1>4, <1>5, <1>6, <1>7

\* The routes of an old REST server that depend on the verbs it knows.
LEMMA RestVerbs ==
    ASSUME NEW verbs
    PROVE  Routes03(verbs) = Routes03({}) \cup {<<<<verb, Subscribe03>>, "SubscribeToTask">> : verb \in verbs}
BY DEF Routes03, Subscribe03

\* The server has the client's method, path or service, and behind it the operation the client
\* means; only an old REST server may not know the verb of a subscription.
LEMMA Routing ==
    ASSUME T \in Transports, T.legacy => world.compat, ~T.legacy => ~world.old,
           NEW v \in {"GET", "POST"}, NEW o \in DOMAIN Targets(T, v)
    PROVE  /\ o \in Ops
           /\ Offered(Targets(T, v)[o]) = IF VerbMatters(T, o) /\ v \notin world.verbs THEN {} ELSE {o}
<1> DEFINE x == Targets(T, v)[o]
<1>1. CASE T.binding = "JSONRPC" /\ ~T.legacy
  <2>1. o \in Ops /\ x = o
    BY <1>1, Tables
  <2>2. Routes = (Models10 \cup Streams10) \cup (IF world.compat THEN Models03 \cup Streams03 ELSE {})
    BY <1>1 DEF Routes
  <2>3. \A r \in Models03 \cup Streams03 : r[1] \notin Ops
    BY DEF Models03, Streams03, Ops, Tasks, Sends, Others, Configs
  <2>4. \A r \in Models10 \cup Streams10 : r[1] = r[2]
    BY DEF Models10, Streams10
  <2>5. <<o, o>> \in Models10 \cup Streams10
    BY <2>1 DEF Models10, Streams10
  <2> HIDE DEF x
  <2>6. \A r \in Routes : r[1] = x => r[2] = o
    BY <2>1, <2>2, <2>3, <2>4
  <2>7. \E r \in Routes : r[1] = x /\ r[2] = o
    BY <2>1, <2>2, <2>5
  <2> QED BY <1>1, <2>1, <2>6, <2>7, OfferedOne DEF x, VerbMatters
<1>2. CASE T.binding = "GRPC" /\ ~T.legacy
  <2>1. o \in Ops /\ x = Method10(o)
    BY <1>2, Tables
  <2>2. Routes = (TaskService10 \cup ConfigService10)
                   \cup (IF world.compat THEN TaskService03 \cup ConfigService03 ELSE {})
    BY <1>2 DEF Routes
  <2>3. \A r \in TaskService03 \cup ConfigService03 : r[1][1] = "a2a.v1"
    BY DEF TaskService03, ConfigService03, Method03
  <2>4. \A r \in TaskService10 \cup ConfigService10 : r[1] = Method10(r[2])
    BY DEF TaskService10, ConfigService10
  <2>5. <<Method10(o), o>> \in TaskService10 \cup ConfigService10
    BY <2>1 DEF TaskService10, ConfigService10, Ops, Tasks, Sends, Others, Configs
  <2>6. \A a, b : Method10(a) = Method10(b) => a = b
    BY DEF Method10
  <2>8. Method10(o)[1] = "lf.a2a.v1"
    BY DEF Method10
  <2> HIDE DEF x
  <2>7. \A r \in Routes : r[1] = x => r[2] = o
    BY <2>1, <2>2, <2>3, <2>4, <2>6, <2>8
  <2>9. \E r \in Routes : r[1] = x /\ r[2] = o
    BY <2>1, <2>2, <2>5
  <2> QED BY <1>2, <2>1, <2>7, <2>9, OfferedOne DEF x, VerbMatters
<1>3. CASE T.binding = "GRPC" /\ T.legacy
  <2>1. o \in Ops \ {"ListTasks"} /\ x = Method03(o)
    BY <1>3, Tables
  <2>2. Routes = (IF world.old THEN {} ELSE TaskService10 \cup ConfigService10)
                   \cup (TaskService03 \cup ConfigService03)
    BY <1>3 DEF Routes
  <2>3. \A r \in TaskService10 \cup ConfigService10 : r[1][1] = "lf.a2a.v1"
    BY DEF TaskService10, ConfigService10, Method10
  <2>4. \A r \in TaskService03 \cup ConfigService03 : r[1] = Method03(r[2]) /\ r[2] \in Ops
    BY DEF TaskService03, ConfigService03, Ops, Tasks, Sends, Others, Configs
  <2>5. <<Method03(o), o>> \in TaskService03 \cup ConfigService03
    BY <2>1 DEF TaskService03, ConfigService03, Ops, Tasks, Sends, Others, Configs
  <2>6. \A a, b \in Ops : Method03(a) = Method03(b) => a = b
    BY DEF Method03, Ops, Tasks, Sends, Others, Configs
  <2>8. Method03(o)[1] = "a2a.v1"
    BY DEF Method03
  <2> HIDE DEF x
  <2>7. \A r \in Routes : r[1] = x => r[2] = o
    BY <2>1, <2>2, <2>3, <2>4, <2>6, <2>8
  <2>9. \E r \in Routes : r[1] = x /\ r[2] = o
    BY <2>1, <2>2, <2>5
  <2> QED BY <1>3, <2>1, <2>7, <2>9, OfferedOne DEF x, VerbMatters
<1>4. CASE T.binding = "JSONRPC" /\ T.legacy
  <2>1. Targets(T, v) = Both(JsonRpcTasks03, Both(JsonRpcConfigs03, JsonRpcOthers03))
    BY <1>4 DEF Targets
  <2>2. Routes = (IF world.old THEN {} ELSE Models10 \cup Streams10) \cup (Models03 \cup Streams03)
    BY <1>4 DEF Routes
  <2>3. o \in Ops /\ <<x, o>> \in Models03 \cup Streams03
    BY <2>1 DEF Both, JsonRpcTasks03, JsonRpcConfigs03, JsonRpcOthers03, Models03, Streams03,
                Ops, Tasks, Sends, Others, Configs
  <2>4. \A r, s \in Models03 \cup Streams03 : r[1] = s[1] => r[2] = s[2]
    BY DEF Models03, Streams03
  <2>5. \A r \in Models10 \cup Streams10 : r[1] \in Ops
    BY DEF Models10, Streams10, Streams, Ops, Others, Tasks, Sends
  <2>6. \A r \in Models03 \cup Streams03 : r[1] \notin Ops
    BY DEF Models03, Streams03, Ops, Tasks, Sends, Others, Configs
  <2> HIDE DEF x
  <2>8. <<x, o>>[1] = x /\ <<x, o>>[2] = o
    OBVIOUS
  <2>7. \A r \in Routes : r[1] = x => r[2] = o
    BY <2>2, <2>3, <2>4, <2>5, <2>6, <2>8
  <2>9. \E r \in Routes : r[1] = x /\ r[2] = o
    BY <2>2, <2>3, <2>8
  <2> QED BY <1>4, <2>3, <2>7, <2>9, OfferedOne DEF x, VerbMatters
<1>5. CASE T.binding = "HTTP+JSON" /\ ~T.legacy
  <2>1. Targets(T, v) = Both(RestTasks10, RestOthers10)
    BY <1>5 DEF Targets
  <2>2. Routes = Routes10 \cup (IF world.compat THEN Routes03(world.verbs) ELSE {})
    BY <1>5 DEF Routes
  <2>3. o \in Ops /\ <<x, o>> \in Routes10
    <3>1. CASE o \in DOMAIN RestTasks10
      <4>1. x = RestTasks10[o]
        BY <2>1, <3>1 DEF Both
      <4> HIDE DEF x
      <4>2. o \in Tasks /\ o \in Ops
        BY <3>1 DEF RestTasks10, Tasks, Sends, Ops
      <4>3. CASE o = "SendMessage"
        BY <4>1, <4>2, <4>3 DEF RestTasks10, Routes10
      <4>4. CASE o = "SendStreamingMessage"
        BY <4>1, <4>2, <4>4 DEF RestTasks10, Routes10
      <4>5. CASE o = "GetTask"
        BY <4>1, <4>2, <4>5 DEF RestTasks10, Routes10
      <4>6. CASE o = "ListTasks"
        BY <4>1, <4>2, <4>6 DEF RestTasks10, Routes10
      <4>7. CASE o = "CancelTask"
        BY <4>1, <4>2, <4>7 DEF RestTasks10, Routes10
      <4> QED BY <4>2, <4>3, <4>4, <4>5, <4>6, <4>7 DEF Tasks, Sends
    <3>2. CASE o \notin DOMAIN RestTasks10
      <4>1. o \in DOMAIN RestOthers10 /\ x = RestOthers10[o]
        BY <2>1, <3>2 DEF Both
      <4> HIDE DEF x
      <4>2. o \in Others /\ o \in Ops
        BY <4>1 DEF RestOthers10, Others, Configs, Ops
      <4>3. CASE o = "SubscribeToTask"
        BY <4>1, <4>2, <4>3 DEF RestOthers10, Routes10
      <4>4. CASE o = "CreateConfig"
        BY <4>1, <4>2, <4>4 DEF RestOthers10, Routes10
      <4>5. CASE o = "GetConfig"
        BY <4>1, <4>2, <4>5 DEF RestOthers10, Routes10
      <4>6. CASE o = "ListConfigs"
        BY <4>1, <4>2, <4>6 DEF RestOthers10, Routes10
      <4>7. CASE o = "DeleteConfig"
        BY <4>1, <4>2, <4>7 DEF RestOthers10, Routes10
      <4>8. CASE o = "GetExtendedAgentCard"
        BY <4>1, <4>2, <4>8 DEF RestOthers10, Routes10
      <4> QED BY <4>2, <4>3, <4>4, <4>5, <4>6, <4>7, <4>8 DEF Others, Configs
    <3> QED BY <3>1, <3>2
  <2> HIDE DEF x
  <2>4. PICK a, p : x = <<a, p>>
    <3>1. PICK a, p, u : <<x, o>> = <<<<a, p>>, u>>
      BY <2>3, RestPaths
    <3> QED BY <3>1
  <2>5. ASSUME NEW r \in Routes, r[1] = x PROVE r[2] = o
    <3>1. CASE r \in Routes10
      <4>1. PICK b, q, u : r = <<<<b, q>>, u>>
        BY <3>1, RestPaths
      <4>2. r[1] = <<b, q>> /\ r[2] = u
        BY <4>1, Pair
      <4>3. b = a /\ q = p
        BY <2>4, <2>5, <4>2
      <4> QED BY <2>3, <2>4, <3>1, <4>1, <4>2, <4>3, RestPaths
    <3>2. CASE r \in Routes03({})
      <4>1. PICK b, q, u : r = <<<<b, q>>, u>>
        BY <3>2, RestPaths
      <4>2. r[1] = <<b, q>> /\ r[2] = u
        BY <4>1, Pair
      <4>3. b = a /\ q = p
        BY <2>4, <2>5, <4>2
      <4> QED BY <2>3, <2>4, <3>2, <4>1, <4>3, RestPaths
    <3>3. ASSUME NEW verb, r = <<<<verb, Subscribe03>>, "SubscribeToTask">> PROVE FALSE
      <4>1. r[1] = <<verb, Subscribe03>>
        BY <3>3, Pair
      <4>2. p = Subscribe03
        BY <2>4, <2>5, <4>1
      <4> QED BY <2>3, <2>4, <4>2, RestPaths
    <3> QED BY <2>2, <2>5, <3>1, <3>2, <3>3, RestVerbs
  <2>6. \E r \in Routes : r[1] = x /\ r[2] = o
    BY <2>2, <2>3, Pair
  <2> QED BY <1>5, <2>3, <2>5, <2>6, OfferedOne DEF x, VerbMatters
<1>6. CASE T.binding = "HTTP+JSON" /\ T.legacy
  <2>1. Targets(T, v) = Both(RestTasks03, Both(RestOthers03, RestSubscribe03(v)))
    BY <1>6 DEF Targets
  <2>2. Routes = (IF world.old THEN {} ELSE Routes10) \cup Routes03(world.verbs)
    BY <1>6 DEF Routes
  <2>3. CASE o = "SubscribeToTask"
    <3>1. x = <<v, Subscribe03>>
      BY <2>1, <2>3 DEF Both, RestTasks03, RestOthers03, RestSubscribe03, Subscribe03
    <3> HIDE DEF x
    <3>2. ASSUME NEW r \in Routes, r[1] = x PROVE r[2] = o /\ v \in world.verbs
      <4>1. CASE r \in Routes10 \cup Routes03({})
        <5>1. PICK b, q, u : r = <<<<b, q>>, u>>
          BY <4>1, RestPaths
        <5>2. r[1] = <<b, q>>
          BY <5>1, Pair
        <5>3. q = Subscribe03
          BY <3>1, <3>2, <5>2
        <5> QED BY <4>1, <5>1, <5>3, RestPaths
      <4>2. ASSUME NEW verb \in world.verbs, r = <<<<verb, Subscribe03>>, "SubscribeToTask">>
            PROVE  r[2] = o /\ v \in world.verbs
        <5>1. r[1] = <<verb, Subscribe03>> /\ r[2] = o
          BY <2>3, <4>2, Pair
        <5>2. verb = v
          BY <3>1, <3>2, <5>1
        <5> QED BY <5>1, <5>2
      <4> QED BY <2>2, <3>2, <4>1, <4>2, RestVerbs
    <3>3. CASE v \in world.verbs
      <4>1. <<x, o>> \in Routes
        BY <2>2, <2>3, <3>1, <3>3, RestVerbs
      <4>2. \E r \in Routes : r[1] = x /\ r[2] = o
        BY <4>1, Pair
      <4> QED BY <2>3, <3>2, <3>3, <4>2, OfferedOne DEF x, Ops, Others
    <3>4. CASE v \notin world.verbs
      <4>1. Offered(x) = {}
        BY <3>2, <3>4 DEF Offered
      <4> QED BY <1>6, <2>3, <3>4, <4>1 DEF x, VerbMatters, Ops, Others
    <3> QED BY <3>3, <3>4
  <2>4. CASE o # "SubscribeToTask"
    <3>1. o \in Ops /\ <<x, o>> \in Routes03({})
      <4>1. o \in DOMAIN RestTasks03 \/ (o \in DOMAIN RestOthers03 /\ o \notin DOMAIN RestTasks03)
        BY <2>1, <2>4 DEF Both, RestSubscribe03
      <4>2. CASE o \in DOMAIN RestTasks03
        <5>1. x = RestTasks03[o]
          BY <2>1, <4>2 DEF Both
        <5>2. o \in {"SendMessage", "SendStreamingMessage", "GetTask", "CancelTask"}
          BY <4>2 DEF RestTasks03
        <5>3. /\ RestTasks03["SendMessage"] = <<"POST", "/v1/message:send">>
              /\ RestTasks03["SendStreamingMessage"] = <<"POST", "/v1/message:stream">>
              /\ RestTasks03["GetTask"] = <<"GET", "/v1/tasks/{id}">>
              /\ RestTasks03["CancelTask"] = <<"POST", "/v1/tasks/{id}:cancel">>
          BY DEF RestTasks03
        <5>4. /\ <<<<"POST", "/v1/message:send">>, "SendMessage">> \in Routes03({})
              /\ <<<<"POST", "/v1/message:stream">>, "SendStreamingMessage">> \in Routes03({})
              /\ <<<<"GET", "/v1/tasks/{id}">>, "GetTask">> \in Routes03({})
              /\ <<<<"POST", "/v1/tasks/{id}:cancel">>, "CancelTask">> \in Routes03({})
          BY DEF Routes03
        <5> HIDE DEF x
        <5>5. <<x, o>> \in Routes03({})
          BY <5>1, <5>2, <5>3, <5>4
        <5> QED BY <5>2, <5>5 DEF Ops, Tasks, Sends
      <4>3. CASE o \in DOMAIN RestOthers03 /\ o \notin DOMAIN RestTasks03
        <5>1. x = RestOthers03[o]
          BY <2>1, <4>3 DEF Both
        <5>2. o \in {"CreateConfig", "GetConfig", "GetExtendedAgentCard"}
          BY <4>3 DEF RestOthers03
        <5>3. /\ RestOthers03["CreateConfig"] = <<"POST", "/v1/tasks/{id}/configs">>
              /\ RestOthers03["GetConfig"] = <<"GET", "/v1/tasks/{id}/configs/{push}">>
              /\ RestOthers03["GetExtendedAgentCard"] = <<"GET", "/v1/card">>
          BY DEF RestOthers03
        <5>4. /\ <<<<"POST", "/v1/tasks/{id}/configs">>, "CreateConfig">> \in Routes03({})
              /\ <<<<"GET", "/v1/tasks/{id}/configs/{push}">>, "GetConfig">> \in Routes03({})
              /\ <<<<"GET", "/v1/card">>, "GetExtendedAgentCard">> \in Routes03({})
          BY DEF Routes03
        <5> HIDE DEF x
        <5>5. <<x, o>> \in Routes03({})
          BY <5>1, <5>2, <5>3, <5>4
        <5> QED BY <5>2, <5>5 DEF Ops, Others, Configs
      <4> QED BY <4>1, <4>2, <4>3
    <3> HIDE DEF x
    <3>2. PICK a, p : x = <<a, p>>
      <4>1. PICK a, p, u : <<x, o>> = <<<<a, p>>, u>>
        BY <3>1, RestPaths
      <4> QED BY <4>1
    <3>3. ASSUME NEW r \in Routes, r[1] = x PROVE r[2] = o
      <4>1. CASE r \in Routes10 \cup Routes03({})
        <5>1. PICK b, q, u : r = <<<<b, q>>, u>>
          BY <4>1, RestPaths
        <5>2. r[1] = <<b, q>> /\ r[2] = u
          BY <5>1, Pair
        <5>3. b = a /\ q = p
          BY <3>2, <3>3, <5>2
        <5> QED BY <3>1, <3>2, <4>1, <5>1, <5>2, <5>3, RestPaths
      <4>2. ASSUME NEW verb, r = <<<<verb, Subscribe03>>, "SubscribeToTask">> PROVE FALSE
        <5>1. r[1] = <<verb, Subscribe03>>
          BY <4>2, Pair
        <5>2. p = Subscribe03
          BY <3>2, <3>3, <5>1
        <5> QED BY <3>1, <3>2, <5>2, RestPaths
      <4> QED BY <2>2, <3>3, <4>1, <4>2, RestVerbs
    <3>4. \E r \in Routes : r[1] = x /\ r[2] = o
      BY <2>2, <3>1, Pair, RestVerbs
    <3> QED BY <2>4, <3>1, <3>3, <3>4, OfferedOne DEF x, VerbMatters
  <2> QED BY <2>3, <2>4
<1> QED BY <1>1, <1>2, <1>3, <1>4, <1>5, <1>6 DEF Transports, Bindings

-----------------------------------------------------------------------------
(* What the caller gets of an error                                        *)

\* No two classes share a code.
LEMMA CodesDiffer ==
    ASSUME NEW a \in DOMAIN JsonRpcCode, NEW b \in DOMAIN JsonRpcCode, JsonRpcCode[a] = JsonRpcCode[b]
    PROVE  a = b
BY DEF JsonRpcCode

\* A JSON-RPC code says the class it was made from.
LEMMA CodeClass ==
    ASSUME NEW e \in DOMAIN JsonRpcCode
    PROVE  JsonRpcClass([code |-> JsonRpcCode[e]]) = e
<1>1. (CHOOSE x \in DOMAIN JsonRpcCode : JsonRpcCode[x] = JsonRpcCode[e]) = e
  BY CodesDiffer
<1> QED BY <1>1 DEF JsonRpcClass

\* Every error has a frame of its own kind, which the client takes for one.
LEMMA ErrorShape ==
    ASSUME NEW t \in Transports, NEW o, NEW e
    PROVE  LET f == ErrorFrame(t, o, e)
           IN  /\ "event" \notin DOMAIN f /\ "end" \notin DOMAIN f
               /\ VerbMatters(t, o) => "status" \notin DOMAIN f
               /\ ErrorClass(t, f) \in {"A2AClientError"} \cup DOMAIN JsonRpcCode
<1> DEFINE f == ErrorFrame(t, o, e)
<1>1. CASE t.binding = "JSONRPC"
  <2>0. {"InternalError", "MethodNotFoundError"} \subseteq DOMAIN JsonRpcCode
    BY DEF JsonRpcCode
  <2>1. PICK x \in DOMAIN JsonRpcCode : f = [code |-> JsonRpcCode[x]]
    BY <1>1, <2>0 DEF ErrorFrame, JsonRpcError03, JsonRpcError10
  <2>2. DOMAIN [code |-> JsonRpcCode[x]] = {"code"}
    OBVIOUS
  <2>3. JsonRpcClass([code |-> JsonRpcCode[x]]) = x
    BY CodeClass
  <2> HIDE DEF f
  <2>4. DOMAIN f = {"code"} /\ JsonRpcClass(f) = x
    BY <2>1, <2>2, <2>3
  <2>5. ErrorClass(t, f) = x
    BY <2>4 DEF ErrorClass
  <2> QED BY <2>4, <2>5 DEF f
<1>2. CASE t.binding = "HTTP+JSON" /\ t.legacy /\ o \in Streams
  <2>1. f = [abort |-> TRUE]
    BY <1>2 DEF ErrorFrame, RestStreamError03
  <2> HIDE DEF f
  <2>2. DOMAIN f = {"abort"}
    BY <2>1
  <2>3. ErrorClass(t, f) = "A2AClientError"
    BY <2>2 DEF ErrorClass
  <2> QED BY <2>2, <2>3 DEF f
<1>3. CASE t.binding = "HTTP+JSON" /\ (~t.legacy \/ o \notin Streams)
  <2>1. f = [status |-> HttpCode(e), reason |-> Reason(e)]
    BY <1>3 DEF ErrorFrame, RestError
  <2> HIDE DEF f
  <2>2. DOMAIN f = {"status", "reason"}
    BY <2>1
  <2>3. ErrorClass(t, f) = IF t.legacy THEN RestClass03(f) ELSE RestClass10(f)
    BY <2>2 DEF ErrorClass
  <2>4. "MethodNotFoundError" \in DOMAIN JsonRpcCode /\ Mapped \subseteq DOMAIN JsonRpcCode
    BY DEF JsonRpcCode, Mapped
  <2>5. ErrorClass(t, f) \in {"A2AClientError"} \cup DOMAIN JsonRpcCode
    BY <2>3, <2>4 DEF RestClass03, RestClass10, NotFound
  <2>6. ~VerbMatters(t, o)
    BY <1>3 DEF VerbMatters, Streams
  <2> QED BY <2>2, <2>5, <2>6 DEF f
<1>4. CASE t.binding = "GRPC"
  <2>1. f = [reason |-> Reason(e)]
    BY <1>4 DEF ErrorFrame, GrpcError03, GrpcError10
  <2> HIDE DEF f
  <2>2. DOMAIN f = {"reason"}
    BY <2>1
  <2>3. ErrorClass(t, f) = IF t.legacy THEN GrpcClass03(f) ELSE GrpcClass10(f)
    BY <2>2 DEF ErrorClass
  <2>4. Mapped \subseteq DOMAIN JsonRpcCode
    BY DEF Mapped
  <2>5. ErrorClass(t, f) \in {"A2AClientError"} \cup DOMAIN JsonRpcCode
    BY <2>3, <2>4 DEF GrpcClass03, GrpcClass10
  <2> QED BY <2>2, <2>5 DEF f
<1> QED BY <1>1, <1>2, <1>3, <1>4 DEF Transports, Bindings

\* Over 1.0 and over gRPC 0.3 a class that is mapped comes back as it is.
LEMMA ErrorKept ==
    ASSUME NEW t \in Transports, ~t.legacy \/ t.binding = "GRPC", NEW o, NEW e \in Mapped
    PROVE  ErrorClass(t, ErrorFrame(t, o, e)) = e
<1>1. CASE t.binding = "JSONRPC"
  <2>1. ErrorFrame(t, o, e) = [code |-> JsonRpcCode[e]] /\ e \in DOMAIN JsonRpcCode
    BY <1>1 DEF ErrorFrame, JsonRpcError10, Mapped
  <2>2. DOMAIN [code |-> JsonRpcCode[e]] = {"code"}
    OBVIOUS
  <2> HIDE DEF Mapped
  <2> QED BY <2>1, <2>2, CodeClass DEF ErrorClass
<1>2. CASE t.binding = "HTTP+JSON"
  <2>1. ErrorFrame(t, o, e) = [status |-> HttpCode(e), reason |-> e]
    BY <1>2 DEF ErrorFrame, RestError, Reason
  <2>2. ErrorClass(t, [status |-> HttpCode(e), reason |-> e]) = e
    BY <1>2 DEF ErrorClass, RestClass10
  <2> QED BY <2>1, <2>2
<1>3. CASE t.binding = "GRPC"
  <2>1. ErrorFrame(t, o, e) = [reason |-> e]
    BY <1>3 DEF ErrorFrame, GrpcError10, GrpcError03, Reason
  <2>2. ErrorClass(t, [reason |-> e]) = e
    BY <1>3 DEF ErrorClass, GrpcClass10, GrpcClass03
  <2> QED BY <2>1, <2>2
<1> QED BY <1>1, <1>2, <1>3 DEF Transports, Bindings

\* What an old REST server says of a verb it does not know.
Refusals == [status : {404, 405}, reason : {"unknown"}]
\* A refusal is an error to the client of 0.3.
LEMMA RefusalClass ==
    ASSUME NEW t \in Transports, t.legacy, NEW f \in Refusals
    PROVE  /\ "event" \notin DOMAIN f /\ "end" \notin DOMAIN f
           /\ ErrorClass(t, f) \in {"A2AClientError"} \cup DOMAIN JsonRpcCode
<1>1. DOMAIN f = {"status", "reason"}
  BY DEF Refusals
<1>2. ErrorClass(t, f) = RestClass03(f)
  BY <1>1 DEF ErrorClass
<1>3. "MethodNotFoundError" \in DOMAIN JsonRpcCode
  BY DEF JsonRpcCode
<1> QED BY <1>1, <1>2, <1>3 DEF RestClass03, NotFound

-----------------------------------------------------------------------------
(* The invariant                                                           *)

EventFrame(t, e) == [event |-> Reply(t, e)]
EndFrame         == [end |-> TRUE]

\* What a call's client sends and its handler is asked, from its world and what it asks.
Wanted(w, a)      == IF a.op = "Send"
                     THEN [a.data EXCEPT !.immediate = @ \/ w.polling, !.push = IF @ = Absent THEN w.push ELSE @]
                     ELSE a.data
Wired(w, o, d, v) == LET t == Chosen(w)[1]
                     IN [target |-> Targets(t, v)[o], version |-> IF t.legacy THEN 3 ELSE 10,
                         data |-> Written(t, o, d)]
Heard(w, a, o)    == <<[op |-> o, data |-> Read(Chosen(w)[1], o, Written(Chosen(w)[1], o, Wanted(w, a)))]>>
Fits(o, a)        == /\ a # Absent /\ o \in Ops
                     /\ IF a.op = "Send" THEN o \in Sends ELSE o = a.op

\* The asking half: what is under way to the handler, which has been asked that or nothing.
\* Only a subscription to an old REST server, with a verb it does not know, has been refused.
AskOK(w, a, ph, o, wi, he, re) ==
    /\ ph \in {"sent", "runs", "answered"} => o # "none"
    /\ o = "none" => he = <<>>
    /\ ph = "idle" => a # Absent /\ o = "none"
    /\ re => VerbMatters(Chosen(w)[1], o)
    /\ ph \in {"idle", "sent"} => he = <<>>
    /\ ph = "runs" => he # <<>>
    /\ o # "none" =>
         /\ Fits(o, a)
         /\ he # <<>> => he = Heard(w, a, o)
         /\ \E v \in {"GET", "POST"} :
              /\ o \in DOMAIN Targets(Chosen(w)[1], v) /\ wi = <<Wired(w, o, Wanted(w, a), v)>>
              /\ ph = "answered" /\ he = <<>> => VerbMatters(Chosen(w)[1], o) /\ v \notin w.verbs
              /\ he # <<>> /\ VerbMatters(Chosen(w)[1], o) => v \in w.verbs

\* The answering half: the caller has what was yielded, up to where it is; the rest is on the
\* way, and behind it the end or the error.
SaidOK(t, ye, go) ==
    /\ ye \in Seq(Whole) /\ Len(ye) <= MaxEvents
    /\ go \in Seq(Event(Message \cup {BlankMessage})) /\ Len(go) <= Len(ye)
    /\ \A n \in 1..Len(go) : go[n] = Understood(t, Reply(t, ye[n]))
Last(t, o, ra) == IF ra \in Failures THEN <<ErrorFrame(t, o, ra)>>
                  ELSE IF ra = "returned" /\ o \in Streams THEN <<EndFrame>> ELSE <<>>
IsList(fr)     == fr \in Seq({fr[n] : n \in DOMAIN fr})
OnTheWay(t, o, ye, ra, fr, go) ==
    /\ IsList(fr) /\ Len(fr) = Len(ye) - Len(go) + Len(Last(t, o, ra))
    /\ \A n \in 1..Len(fr) : fr[n] = IF n <= Len(ye) - Len(go) THEN EventFrame(t, ye[Len(go) + n])
                                     ELSE Last(t, o, ra)[1]
\* The caller has everything, or a message that ends it.
Complete(ye, go) == Len(go) = Len(ye)
ByMessage(go)    == go # <<>> /\ go[Len(go)].kind = "message"
FlowOK(t, ph, o, he, ye, ra, fr, go, ou, br) ==
    /\ SaidOK(t, ye, go)
    /\ ph \in {"idle", "sent"} => ye = <<>> /\ go = <<>> /\ fr = <<>> /\ ra = "none"
    /\ ph = "runs"     => ra = "none"
    /\ ph = "answered" => (he # <<>> <=> ra # "none")
    /\ ph \in {"runs", "answered"} =>
         /\ he # <<>> => OnTheWay(t, o, ye, ra, fr, go)
         /\ he = <<>> => ye = <<>> /\ go = <<>> /\ ra = "none" /\ \E f \in Refusals : fr = <<f>>
    /\ o \in Unary /\ ph # "over" => go = <<>> /\ (ra = "returned" <=> Len(ye) = 1) /\ Len(ye) <= 1
    /\ ph # "over" => ou = "none"
    /\ ph = "over" =>
         /\ ou = "ok" /\ o # "none" => (ra = "returned" /\ Complete(ye, go)) \/ ByMessage(go)
         /\ ra \in Failures /\ ~br =>
              (ou = ErrorClass(t, ErrorFrame(t, o, ra)) /\ Complete(ye, go)) \/ ByMessage(go)

Static == [world |-> world, plan |-> plan] \in Scenarios
Types ==
    /\ phase \in [Calls -> {"idle", "sent", "runs", "answered", "over"}]
    /\ op \in [Calls -> Unary \cup Streams \cup {"none"}]
    /\ raised \in [Calls -> Failures \cup {"none", "returned"}]
    /\ outcome \in [Calls -> {"none", "ok", "NotImplementedError", "A2AClientError"} \cup DOMAIN JsonRpcCode]
    /\ refused \in [Calls -> BOOLEAN] /\ broke \in [Calls -> BOOLEAN]
    /\ wire = [c \in Calls |-> wire[c]] /\ heard = [c \in Calls |-> heard[c]]
    /\ yielded = [c \in Calls |-> yielded[c]] /\ frames = [c \in Calls |-> frames[c]]
    /\ got = [c \in Calls |-> got[c]]
\* Only the REST transport of 0.3 has a verb to remember.
ClientOK ==
    /\ card \in [streaming : BOOLEAN, extended : BOOLEAN]
    /\ override \in {"none", "GET", "POST"} /\ auto \in BOOLEAN
    /\ override # "none" => T.legacy /\ T.binding = "HTTP+JSON"
CallOK(c) ==
    /\ AskOK(world, plan[c], phase[c], op[c], wire[c], heard[c], refused[c])
    /\ FlowOK(T, phase[c], op[c], heard[c], yielded[c], raised[c], frames[c], got[c], outcome[c], broke[c])
IInv == Static /\ Types /\ ClientOK /\ \A c \in Calls : CallOK(c)

-----------------------------------------------------------------------------
(* What the world promises                                                 *)

\* The instance of the assumption that a behaviour runs in.
LEMMA TheWorld ==
    ASSUME Static
    PROVE  /\ IsWorld(world) /\ T \in Transports
           /\ T.legacy => world.compat /\ ToCompatCard(world.extendedCard) # <<>>
           /\ ~T.legacy => ~world.old
           /\ Parsed(world).streaming \in BOOLEAN /\ Parsed(world).extended \in BOOLEAN
           /\ \A c \in Calls : plan[c] # Absent => plan[c] \in Request /\ IsProper(plan[c])
<1>1. PICK s \in Scenarios : s.world = world /\ s.plan = plan
  BY DEF Static
<1>2. IsWorld(world) /\ plan \in [Calls -> Request \cup {Absent}]
      /\ \A c \in Calls : plan[c] # Absent => IsProper(plan[c])
  BY <1>1, InteropAssumption
<1> QED BY <1>2, ChosenServed DEF T

\* What the client sends is what the caller asked, as configured.
LEMMA WantedSuits ==
    ASSUME NEW w, IsWorld(w), NEW a \in Request, IsProper(a), NEW o, Fits(o, a)
    PROVE  /\ Wanted(w, a) \in Data /\ Suits(o, Wanted(w, a))
           /\ Wanted(w, a).message = a.data.message /\ Wanted(w, a).history = a.data.history
           /\ Wanted(w, a).fields = a.data.fields
           /\ Wanted(w, a).immediate = (a.data.immediate \/ (o \in Sends /\ w.polling))
           /\ Wanted(w, a).push = (IF o \in Sends /\ a.data.push = Absent THEN w.push ELSE a.data.push)
<1> DEFINE d == a.data
           g == Wanted(w, a)
<1>1. d \in Data /\ w.polling \in BOOLEAN /\ w.push \in Push \cup {Absent}
  BY DEF Request, Data, IsWorld
<1>2. a.op # "Send" => a.op \notin Sends
  BY DEF Request, Unary, Sends, Streams
<1>3. a.op = "Send" <=> o \in Sends
  BY <1>2 DEF Fits
<1>4. CASE a.op = "Send"
  <2> DEFINE i == d.immediate \/ w.polling
             q == IF d.push = Absent THEN w.push ELSE d.push
  <2>1. g \in [message : {d.message}, history : {d.history}, immediate : {i}, push : {q}, fields : {d.fields}]
    BY <1>1, <1>4 DEF Wanted, Data
  <2>2. i \in BOOLEAN /\ q \in Push \cup {Absent}
    BY <1>1 DEF Data
  <2>3. /\ d.message # Absent /\ ("metadata" \in d.fields => o \in Sends \cup {"CancelTask"})
        /\ o \in Sends /\ o # "CreateConfig"
    BY <1>3, <1>4 DEF IsProper, Sends
  <2>4. i = (d.immediate \/ (o \in Sends /\ w.polling))
    BY <2>3
  <2>5. q = IF o \in Sends /\ d.push = Absent THEN w.push ELSE d.push
    BY <2>3
  <2> HIDE DEF g, i, q, d
  <2>6. g.message = d.message /\ g.history = d.history /\ g.immediate = i /\ g.push = q /\ g.fields = d.fields
    BY <2>1
  <2>7. g \in Data
    BY <1>1, <2>1, <2>2 DEF Data
  <2>8. Suits(o, g)
    BY <2>3, <2>6 DEF Suits
  <2> QED BY <2>4, <2>5, <2>6, <2>7, <2>8 DEF g, d
<1>5. CASE a.op # "Send"
  <2>1. g = d
    BY <1>5 DEF Wanted
  <2>2. Suits(o, d)
    BY <1>3, <1>5 DEF Suits, IsProper, Fits
  <2> HIDE DEF g, d
  <2>3. d.immediate = (d.immediate \/ (o \in Sends /\ w.polling))
    BY <1>1, <1>3, <1>5 DEF Data
  <2> QED BY <1>1, <1>3, <1>5, <2>1, <2>2, <2>3 DEF g, d
<1> QED BY <1>4, <1>5

\* The invariant says what is sent without the variables of the client.
LEMMA SentIsWired ==
    ASSUME NEW o, NEW d, NEW v
    PROVE  Sent(o, d, v) = Wired(world, o, d, v)
BY DEF Sent, Wired, T

\* So does it say what BaseClient configured.
LEMMA ConfiguredIsWanted ==
    ASSUME NEW c
    PROVE  Configured(c) = Wanted(world, plan[c])
BY DEF Configured, Wanted

\* A request as sent: its target is offered to its operation, except to an old REST server, its
\* version the one expected, and what is read of it what the handler is to be asked.
LEMMA WireReaches ==
    ASSUME Static, NEW c \in Calls, plan[c] # Absent, NEW v \in {"GET", "POST"}, NEW o \in DOMAIN Targets(T, v),
           NEW w, w = Wired(world, o, Wanted(world, plan[c]), v)
    PROVE  /\ Offered(w.target) = IF VerbMatters(T, o) /\ v \notin world.verbs THEN {} ELSE {o}
           /\ w.target = Targets(T, v)[o] /\ IsVersionCompatible(w.version, Expected)
           /\ <<[op |-> o, data |-> Read(T, o, w.data)]>> = Heard(world, plan[c], o)
<1> DEFINE d == Written(T, o, Wanted(world, plan[c]))
           x == Targets(T, v)[o]
<1>1. w = [target |-> x, version |-> Expected, data |-> d]
  BY DEF Wired, Expected, T
<1>2. Offered(x) = IF VerbMatters(T, o) /\ v \notin world.verbs THEN {} ELSE {o}
  BY TheWorld, Routing
<1>3. IsVersionCompatible(Expected, Expected)
  BY DEF IsVersionCompatible
<1>4. <<[op |-> o, data |-> Read(T, o, d)]>> = Heard(world, plan[c], o)
  BY DEF Heard, T
<1> HIDE DEF x, d
<1>5. w.target = x /\ w.version = Expected /\ w.data = d
  BY <1>1
<1> QED BY <1>2, <1>3, <1>4, <1>5 DEF x

-----------------------------------------------------------------------------
(* The answering half, step by step                                        *)

\* Lists of frames, of which only the elements are known: with one more,
LEMMA ListAppend ==
    ASSUME NEW f, IsList(f), NEW x
    PROVE  LET g == Append(f, x)
           IN  /\ IsList(g) /\ Len(f) \in Nat /\ Len(g) = Len(f) + 1
               /\ \A n \in 1..Len(f) : g[n] = f[n]
               /\ g[Len(f) + 1] = x
<1> DEFINE S == {f[n] : n \in DOMAIN f} \cup {x}
           g == Append(f, x)
<1>1. f \in Seq(S)
  BY DEF IsList
<1>2. x \in S
  OBVIOUS
<1> HIDE DEF S
<1>3. /\ g \in Seq(S) /\ Len(f) \in Nat /\ Len(g) = Len(f) + 1
      /\ \A n \in 1..Len(f) : g[n] = f[n]
      /\ g[Len(f) + 1] = x
  BY <1>1, <1>2
<1> HIDE DEF g
<1>4. IsList(g)
  BY <1>3 DEF IsList
<1> QED BY <1>3, <1>4 DEF g

\* without the first,
LEMMA ListTail ==
    ASSUME NEW f, IsList(f), f # <<>>
    PROVE  /\ Len(f) \in Nat \ {0} /\ Head(f) = f[1]
           /\ IsList(Tail(f)) /\ Len(Tail(f)) = Len(f) - 1
           /\ \A n \in 1..(Len(f) - 1) : Tail(f)[n] = f[n + 1]
<1> DEFINE S == {f[n] : n \in DOMAIN f}
           g == Tail(f)
<1>1. f \in Seq(S)
  BY DEF IsList
<1> HIDE DEF S
<1>2. /\ Len(f) \in Nat \ {0} /\ Head(f) = f[1] /\ g \in Seq(S) /\ Len(g) = Len(f) - 1
      /\ \A n \in 1..(Len(f) - 1) : g[n] = f[n + 1]
  BY <1>1
<1> HIDE DEF g
<1>3. IsList(g)
  BY <1>2 DEF IsList
<1> QED BY <1>2, <1>3 DEF g

\* and of one.
LEMMA ListOne ==
    ASSUME NEW x
    PROVE  IsList(<<x>>) /\ Len(<<x>>) = 1 /\ <<x>>[1] = x /\ IsList(<<>>) /\ Len(<<>>) = 0
<1>1. <<x>> \in Seq({x}) /\ DOMAIN <<x>> = {1}
  OBVIOUS
<1> QED BY <1>1 DEF IsList

\* Behind the events comes at most one frame.
LEMMA LastOne ==
    ASSUME NEW t, NEW o, NEW ra
    PROVE  /\ Len(Last(t, o, ra)) \in {0, 1}
           /\ Len(Last(t, o, ra)) = 1 <=> ra \in Failures \/ (ra = "returned" /\ o \in Streams)
           /\ ra \in Failures => Last(t, o, ra)[1] = ErrorFrame(t, o, ra)
           /\ ra = "returned" /\ o \in Streams => Last(t, o, ra)[1] = EndFrame
<1>1. \A x : Len(<<x>>) = 1 /\ <<x>>[1] = x /\ Len(<<>>) = 0
  BY ListOne
<1>2. CASE ra \in Failures
  <2>1. Last(t, o, ra) = <<ErrorFrame(t, o, ra)>> /\ ra # "returned"
    BY <1>2, InteropAssumption DEF Last
  <2> QED BY <1>1, <1>2, <2>1
<1>3. CASE ra \notin Failures /\ ra = "returned" /\ o \in Streams
  <2>1. Last(t, o, ra) = <<EndFrame>>
    BY <1>3 DEF Last
  <2> QED BY <1>1, <1>3, <2>1
<1>4. CASE ra \notin Failures /\ ~(ra = "returned" /\ o \in Streams)
  <2>1. Last(t, o, ra) = <<>>
    BY <1>4 DEF Last
  <2> QED BY <1>1, <1>4, <2>1
<1> QED BY <1>2, <1>3, <1>4

\* What has been said, with one more event on the handler's side,
LEMMA SaidMore ==
    ASSUME NEW t, NEW ye, NEW go, SaidOK(t, ye, go), NEW e \in Whole, Len(ye) < MaxEvents
    PROVE  /\ SaidOK(t, Append(ye, e), go) /\ Len(Append(ye, e)) = Len(ye) + 1 /\ Len(ye) \in Nat
           /\ \A n \in 1..Len(ye) : Append(ye, e)[n] = ye[n]
           /\ Append(ye, e)[Len(ye) + 1] = e
<1> DEFINE y == Append(ye, e)
<1>1. ye \in Seq(Whole) /\ Len(ye) \in Nat /\ MaxEvents \in Nat /\ Len(go) \in Nat /\ Len(go) <= Len(ye)
  BY InteropAssumption DEF SaidOK
<1>2. /\ y \in Seq(Whole) /\ Len(y) = Len(ye) + 1
      /\ \A n \in 1..Len(ye) : y[n] = ye[n]
      /\ y[Len(ye) + 1] = e
  BY <1>1
<1> HIDE DEF y
<1>3. SaidOK(t, y, go)
  BY <1>1, <1>2 DEF SaidOK
<1> QED BY <1>1, <1>2, <1>3 DEF y

\* and on the caller's.
LEMMA GotMore ==
    ASSUME NEW t \in Transports, NEW ye, NEW go, SaidOK(t, ye, go), Len(go) < Len(ye)
    PROVE  LET e == Understood(t, Reply(t, ye[Len(go) + 1]))
               g == Append(go, e)
           IN  /\ SaidOK(t, ye, g) /\ Len(g) = Len(go) + 1 /\ Len(go) \in Nat /\ Len(ye) \in Nat
               /\ g[Len(g)] = e /\ g # <<>>
<1> DEFINE k == Len(go) + 1
           e == Understood(t, Reply(t, ye[k]))
           g == Append(go, e)
<1>1. /\ ye \in Seq(Whole) /\ Len(ye) \in Nat /\ Len(ye) <= MaxEvents /\ Len(go) \in Nat
      /\ go \in Seq(Event(Message \cup {BlankMessage}))
      /\ \A n \in 1..Len(go) : go[n] = Understood(t, Reply(t, ye[n]))
  BY DEF SaidOK
<1>2. ye[k] \in Whole
  BY <1>1
<1>3. e \in Event(Message \cup {BlankMessage})
  BY <1>2, EventSaid
<1> HIDE DEF e
<1>4. /\ g \in Seq(Event(Message \cup {BlankMessage})) /\ Len(g) = k /\ g[k] = e
      /\ \A n \in 1..Len(go) : g[n] = go[n]
  BY <1>1, <1>3
<1> HIDE DEF g
<1>5. \A n \in 1..k : n \in 1..Len(go) \/ n = k
  BY <1>1
<1>6. \A n \in 1..Len(g) : g[n] = Understood(t, Reply(t, ye[n]))
  BY <1>1, <1>4, <1>5 DEF e
<1>7. SaidOK(t, ye, g) /\ g # <<>>
  BY <1>1, <1>4, <1>6 DEF SaidOK
<1> QED BY <1>1, <1>4, <1>7 DEF g, e

\* While nothing has been said last, all that is on its way are events.
LEMMA NothingLast ==
    ASSUME NEW t, NEW o, NEW ye, NEW fr, NEW go, OnTheWay(t, o, ye, "none", fr, go),
           Len(ye) \in Nat, Len(go) \in Nat
    PROVE  /\ IsList(fr) /\ Len(fr) = Len(ye) - Len(go)
           /\ \A n \in 1..Len(fr) : fr[n] = EventFrame(t, ye[Len(go) + n])
<1> DEFINE a == Len(ye)
           b == Len(go)
           L == Last(t, o, "none")
<1>1. IsList(fr) /\ Len(fr) = a - b + Len(L)
  BY DEF OnTheWay
<1>2. \A n \in 1..Len(fr) : n <= a - b => fr[n] = EventFrame(t, ye[b + n])
  BY DEF OnTheWay
<1>3. Len(L) = 0
  BY LastOne, InteropAssumption
<1>4. a \in Nat /\ b \in Nat
  OBVIOUS
<1> HIDE DEF a, b, L
<1>5. Len(fr) = a - b
  BY <1>1, <1>3, <1>4
<1>6. \A n \in 1..Len(fr) : n <= a - b
  BY <1>4, <1>5
<1> QED BY <1>1, <1>2, <1>5, <1>6 DEF a, b

\* The handler yields.
LEMMA FlowYield ==
    ASSUME NEW t, NEW o \in Ops, NEW he, NEW ye, NEW fr, NEW go, NEW ou, NEW br, NEW e \in Whole,
           FlowOK(t, "runs", o, he, ye, "none", fr, go, ou, br), he # <<>>,
           Len(ye) < (IF o \in Streams THEN MaxEvents ELSE 1)
    PROVE  FlowOK(t, IF o \in Streams THEN "runs" ELSE "answered", o, he, Append(ye, e),
                  IF o \in Streams THEN "none" ELSE "returned", Append(fr, EventFrame(t, e)), go, ou, br)
<1> DEFINE y == Append(ye, e)
           f == Append(fr, EventFrame(t, e))
           r == IF o \in Streams THEN "none" ELSE "returned"
           ph == IF o \in Streams THEN "runs" ELSE "answered"
<1>1. SaidOK(t, ye, go) /\ OnTheWay(t, o, ye, "none", fr, go) /\ ou = "none"
      /\ (o \in Unary => go = <<>> /\ Len(ye) <= 1)
  BY DEF FlowOK
<1>2. Len(ye) < MaxEvents /\ MaxEvents \in Nat /\ Len(ye) \in Nat /\ Len(go) \in Nat /\ Len(go) <= Len(ye)
  BY <1>1, InteropAssumption DEF SaidOK
<1>3. /\ SaidOK(t, y, go) /\ Len(y) = Len(ye) + 1
      /\ \A n \in 1..Len(ye) : y[n] = ye[n]
      /\ y[Len(ye) + 1] = e
  BY <1>1, <1>2, SaidMore
<1>4. /\ Len(Last(t, o, "none")) = 0 /\ Len(Last(t, o, r)) = 0
  BY LastOne, InteropAssumption
<1>5. /\ IsList(fr) /\ Len(fr) = Len(ye) - Len(go)
      /\ \A n \in 1..Len(fr) : fr[n] = EventFrame(t, ye[Len(go) + n])
  BY <1>1, <1>2, NothingLast
<1>6. /\ IsList(f) /\ Len(f) = Len(fr) + 1 /\ f[Len(fr) + 1] = EventFrame(t, e)
      /\ \A n \in 1..Len(fr) : f[n] = fr[n]
  BY <1>5, ListAppend
<1>7. o \in Unary <=> o \notin Streams
  BY DEF Unary
<1> HIDE DEF y, f, r
<1>8. \A n \in 1..Len(f) : f[n] = EventFrame(t, y[Len(go) + n])
  <2> TAKE n \in 1..Len(f)
  <2>1. CASE n = Len(fr) + 1
    BY <1>2, <1>3, <1>5, <1>6, <2>1
  <2>2. CASE n # Len(fr) + 1
    <3>1. n \in 1..Len(fr) /\ Len(go) + n \in 1..Len(ye)
      BY <1>2, <1>5, <1>6, <2>2
    <3> QED BY <1>3, <1>5, <1>6, <3>1
  <2> QED BY <2>1, <2>2
<1>9. OnTheWay(t, o, y, r, f, go)
  <2>1. Len(f) = Len(y) - Len(go) + Len(Last(t, o, r))
    BY <1>2, <1>3, <1>4, <1>5, <1>6
  <2>2. \A n \in 1..Len(f) : n <= Len(y) - Len(go)
    BY <1>2, <1>3, <1>4, <2>1
  <2> QED BY <1>6, <1>8, <2>1, <2>2 DEF OnTheWay
<1>10. o \in Unary => Len(y) = 1
  BY <1>1, <1>2, <1>3, <1>7
<1> QED BY <1>1, <1>3, <1>7, <1>9, <1>10 DEF FlowOK, y, f, r

\* It ends: a stream returns, or a class is raised.
LEMMA FlowLast ==
    ASSUME NEW t, NEW o \in Ops, NEW he, NEW ye, NEW fr, NEW go, NEW ou, NEW br, NEW ra,
           FlowOK(t, "runs", o, he, ye, "none", fr, go, ou, br), he # <<>>,
           ra \in Failures \/ (ra = "returned" /\ o \in Streams)
    PROVE  FlowOK(t, "answered", o, he, ye, ra, Append(fr, Last(t, o, ra)[1]), go, ou, br)
<1> DEFINE x == Last(t, o, ra)[1]
           f == Append(fr, x)
<1>1. SaidOK(t, ye, go) /\ OnTheWay(t, o, ye, "none", fr, go) /\ ou = "none"
      /\ (o \in Unary => go = <<>> /\ Len(ye) <= 1 /\ Len(ye) # 1)
  BY DEF FlowOK
<1>2. Len(ye) \in Nat /\ Len(go) \in Nat /\ Len(go) <= Len(ye)
  BY <1>1 DEF SaidOK
<1>4. Len(Last(t, o, "none")) = 0 /\ Len(Last(t, o, ra)) = 1
  BY LastOne, InteropAssumption
<1>5. /\ IsList(fr) /\ Len(fr) = Len(ye) - Len(go)
      /\ \A n \in 1..Len(fr) : fr[n] = EventFrame(t, ye[Len(go) + n])
  BY <1>1, <1>2, NothingLast
<1> HIDE DEF x
<1>6. /\ IsList(f) /\ Len(f) = Len(fr) + 1 /\ f[Len(fr) + 1] = x
      /\ \A n \in 1..Len(fr) : f[n] = fr[n]
  BY <1>5, ListAppend
<1> HIDE DEF f
<1>7. \A n \in 1..Len(f) : f[n] = IF n <= Len(ye) - Len(go) THEN EventFrame(t, ye[Len(go) + n]) ELSE x
  <2> TAKE n \in 1..Len(f)
  <2>1. CASE n = Len(fr) + 1
    BY <1>2, <1>5, <1>6, <2>1
  <2>2. CASE n # Len(fr) + 1
    BY <1>2, <1>5, <1>6, <2>2
  <2> QED BY <2>1, <2>2
<1>8. OnTheWay(t, o, ye, ra, f, go)
  BY <1>2, <1>4, <1>5, <1>6, <1>7 DEF OnTheWay, x
<1>9. ra # "none" /\ (o \in Unary => ra # "returned")
  BY InteropAssumption DEF Unary
<1> QED BY <1>1, <1>8, <1>9 DEF FlowOK, f, x

\* The frame that the client reads: an event, the end, an error of the handler or a refusal.
LEMMA NextFrame ==
    ASSUME NEW t \in Transports, NEW ph \in {"runs", "answered"}, NEW o \in Ops, NEW he, NEW ye, NEW ra, NEW fr,
           NEW go, NEW ou, NEW br, FlowOK(t, ph, o, he, ye, ra, fr, go, ou, br), fr # <<>>
    PROVE  \/ /\ he # <<>> /\ Len(go) < Len(ye) /\ Head(fr) = EventFrame(t, ye[Len(go) + 1])
              /\ OnTheWay(t, o, ye, ra, Tail(fr), Append(go, Understood(t, Reply(t, ye[Len(go) + 1]))))
           \/ he # <<>> /\ Complete(ye, go) /\ ra = "returned" /\ o \in Streams /\ Head(fr) = EndFrame
           \/ he # <<>> /\ Complete(ye, go) /\ ra \in Failures /\ Head(fr) = ErrorFrame(t, o, ra)
           \/ he = <<>> /\ ra = "none" /\ ye = <<>> /\ go = <<>> /\ Head(fr) \in Refusals
<1>1. SaidOK(t, ye, go)
  BY DEF FlowOK
<1>2. Len(ye) \in Nat /\ Len(go) \in Nat /\ Len(go) <= Len(ye)
  BY <1>1 DEF SaidOK
<1>3. CASE he = <<>>
  <2>1. /\ ra = "none" /\ ye = <<>> /\ go = <<>>
        /\ \E f \in Refusals : fr = <<f>>
    BY <1>3 DEF FlowOK
  <2>2. \A f : Head(<<f>>) = f
    OBVIOUS
  <2> QED BY <1>3, <2>1, <2>2
<1>4. CASE he # <<>>
  <2> DEFINE L == Last(t, o, ra)
             k == Len(ye) - Len(go)
             g == Append(go, Understood(t, Reply(t, ye[Len(go) + 1])))
  <2>1. /\ IsList(fr) /\ Len(fr) = k + Len(L)
        /\ \A n \in 1..Len(fr) : fr[n] = IF n <= k THEN EventFrame(t, ye[Len(go) + n]) ELSE L[1]
    BY <1>4 DEF FlowOK, OnTheWay
  <2>2. /\ Len(fr) \in Nat \ {0} /\ Head(fr) = fr[1]
        /\ IsList(Tail(fr)) /\ Len(Tail(fr)) = Len(fr) - 1
        /\ \A n \in 1..(Len(fr) - 1) : Tail(fr)[n] = fr[n + 1]
    BY <2>1, ListTail
  <2>3. /\ Len(L) \in {0, 1}
        /\ Len(L) = 1 => \/ ra \in Failures /\ L[1] = ErrorFrame(t, o, ra)
                         \/ ra = "returned" /\ o \in Streams /\ L[1] = EndFrame
    BY LastOne
  <2> HIDE DEF L
  <2>4. CASE k = 0
    <3>1. Head(fr) = L[1] /\ Len(L) = 1
      BY <2>1, <2>2, <2>3, <2>4
    <3> QED BY <1>2, <1>4, <2>3, <2>4, <3>1 DEF Complete
  <2>5. CASE k # 0
    <3>1. k \in Nat \ {0} /\ Len(go) < Len(ye) /\ Head(fr) = EventFrame(t, ye[Len(go) + 1])
      BY <1>2, <2>1, <2>2, <2>5
    <3>2. Len(g) = Len(go) + 1
      BY <1>1, <1>2, <3>1, GotMore
    <3> HIDE DEF g
    <3>3. Len(Tail(fr)) = Len(ye) - Len(g) + Len(L)
      BY <1>2, <2>1, <2>2, <2>3, <3>2
    <3>4. \A n \in 1..Len(Tail(fr)) :
            Tail(fr)[n] = IF n <= Len(ye) - Len(g) THEN EventFrame(t, ye[Len(g) + n]) ELSE L[1]
      <4> TAKE n \in 1..Len(Tail(fr))
      <4>1. n \in 1..(Len(fr) - 1) /\ n + 1 \in 1..Len(fr)
        BY <2>2
      <4>2. Len(go) + (n + 1) = Len(g) + n /\ (n + 1 <= k <=> n <= Len(ye) - Len(g))
        BY <1>2, <3>2, <4>1
      <4> QED BY <2>1, <2>2, <4>1, <4>2
    <3>5. OnTheWay(t, o, ye, ra, Tail(fr), g)
      BY <2>2, <3>3, <3>4 DEF OnTheWay, L
    <3> QED BY <1>4, <3>1, <3>5 DEF g
  <2> QED BY <2>4, <2>5
<1> QED BY <1>3, <1>4

\* The frames are told apart by their fields.
LEMMA FrameKinds ==
    ASSUME NEW t \in Transports
    PROVE  /\ \A e : DOMAIN EventFrame(t, e) = {"event"} /\ EventFrame(t, e).event = Reply(t, e)
           /\ DOMAIN EndFrame = {"end"}
           /\ \A f \in Refusals : "event" \notin DOMAIN f /\ "end" \notin DOMAIN f
           /\ \A o, ra : "event" \notin DOMAIN ErrorFrame(t, o, ra) /\ "end" \notin DOMAIN ErrorFrame(t, o, ra)
<1>1. \A e : DOMAIN EventFrame(t, e) = {"event"} /\ EventFrame(t, e).event = Reply(t, e)
  BY DEF EventFrame
<1>2. DOMAIN EndFrame = {"end"}
  BY DEF EndFrame
<1>3. \A f \in Refusals : "event" \notin DOMAIN f /\ "end" \notin DOMAIN f
  BY DEF Refusals
<1>4. \A o, ra : "event" \notin DOMAIN ErrorFrame(t, o, ra) /\ "end" \notin DOMAIN ErrorFrame(t, o, ra)
  BY ErrorShape
<1> QED BY <1>1, <1>2, <1>3, <1>4

\* The client takes an event,
LEMMA FlowTake ==
    ASSUME NEW t \in Transports, NEW ph \in {"runs", "answered"}, NEW o \in Ops, NEW he, NEW ye, NEW ra, NEW fr,
           NEW go, NEW ou, NEW br, FlowOK(t, ph, o, he, ye, ra, fr, go, ou, br), fr # <<>>,
           "event" \in DOMAIN Head(fr)
    PROVE  LET e == Understood(t, Head(fr).event)
               g == Append(go, e)
           IN  /\ o \in Unary \/ e.kind = "message" => FlowOK(t, "over", o, he, ye, ra, <<>>, g, "ok", br)
               /\ o \notin Unary => FlowOK(t, ph, o, he, ye, ra, Tail(fr), g, ou, br)
<1> DEFINE e == Understood(t, Reply(t, ye[Len(go) + 1]))
           g == Append(go, e)
<1>1. /\ he # <<>> /\ Len(go) < Len(ye) /\ Head(fr) = EventFrame(t, ye[Len(go) + 1])
      /\ OnTheWay(t, o, ye, ra, Tail(fr), g)
  BY NextFrame, FrameKinds
<1>2. Understood(t, Head(fr).event) = e
  BY <1>1, FrameKinds
<1>3. /\ SaidOK(t, ye, g) /\ Len(g) = Len(go) + 1 /\ Len(go) \in Nat /\ Len(ye) \in Nat
      /\ g[Len(g)] = e /\ g # <<>>
  BY <1>1, GotMore DEF FlowOK
<1> HIDE DEF e, g
<1>4. o \in Unary => Len(go) = 0 /\ Len(ye) = 1 /\ ra = "returned"
  <2>1. o \in Unary => go = <<>> /\ (ra = "returned" <=> Len(ye) = 1) /\ Len(ye) <= 1
    BY DEF FlowOK
  <2>2. go = <<>> => Len(go) = 0
    BY ListOne
  <2>3. Len(go) < Len(ye)
    BY <1>1
  <2>4. Len(go) \in Nat /\ Len(ye) \in Nat
    BY <1>3
  <2>5. Len(go) = 0 /\ Len(ye) <= 1 => Len(ye) = 1
    <3>1. \A a, b \in Nat : a < b /\ a = 0 /\ b <= 1 => b = 1
      OBVIOUS
    <3> QED BY <2>3, <2>4, <3>1
  <2> QED BY <2>1, <2>2, <2>5
<1>5. o \in Unary \/ e.kind = "message" => FlowOK(t, "over", o, he, ye, ra, <<>>, g, "ok", br)
  <2>1. o \in Unary => Complete(ye, g) /\ ra = "returned" /\ ra \notin Failures
    BY <1>3, <1>4, InteropAssumption DEF Complete
  <2>2. e.kind = "message" => ByMessage(g)
    BY <1>3 DEF ByMessage
  <2> QED BY <1>3, <2>1, <2>2 DEF FlowOK
<1>6. o \notin Unary => FlowOK(t, ph, o, he, ye, ra, Tail(fr), g, ou, br)
  BY <1>1, <1>3 DEF FlowOK
<1> QED BY <1>2, <1>5, <1>6 DEF g

\* the end,
LEMMA FlowEnd ==
    ASSUME NEW t \in Transports, NEW ph \in {"runs", "answered"}, NEW o \in Ops, NEW he, NEW ye, NEW ra, NEW fr,
           NEW go, NEW ou, NEW br, FlowOK(t, ph, o, he, ye, ra, fr, go, ou, br), fr # <<>>,
           "end" \in DOMAIN Head(fr)
    PROVE  FlowOK(t, "over", o, he, ye, ra, <<>>, go, "ok", br)
<1>1. Complete(ye, go) /\ ra = "returned"
  BY NextFrame, FrameKinds
<1>2. ra \notin Failures
  BY <1>1, InteropAssumption
<1> QED BY <1>1, <1>2 DEF FlowOK

\* an error, which says what was raised when something was,
LEMMA FlowError ==
    ASSUME NEW t \in Transports, NEW ph \in {"runs", "answered"}, NEW o \in Ops, NEW he, NEW ye, NEW ra, NEW fr,
           NEW go, NEW ou, NEW br, FlowOK(t, ph, o, he, ye, ra, fr, go, ou, br), fr # <<>>,
           IsError(Head(fr)), he = <<>> => t.legacy
    PROVE  LET c == ErrorClass(t, Head(fr))
           IN  /\ c \in {"A2AClientError"} \cup DOMAIN JsonRpcCode
               /\ FlowOK(t, "over", o, he, ye, ra, <<>>, go, c, br)
<1> DEFINE c == ErrorClass(t, Head(fr))
<1>1. DOMAIN Head(fr) # {"event"} /\ DOMAIN Head(fr) # {"end"}
  BY DEF IsError
<1>2. \/ he # <<>> /\ Complete(ye, go) /\ ra \in Failures /\ Head(fr) = ErrorFrame(t, o, ra)
      \/ he = <<>> /\ ra = "none" /\ Head(fr) \in Refusals
  BY <1>1, NextFrame, FrameKinds
<1>3. c \in {"A2AClientError"} \cup DOMAIN JsonRpcCode
  BY <1>2, ErrorShape, RefusalClass
<1>4. "ok" \notin {"A2AClientError"} \cup DOMAIN JsonRpcCode
  BY DEF JsonRpcCode
<1>5. ra \in Failures => c = ErrorClass(t, ErrorFrame(t, o, ra)) /\ Complete(ye, go)
  BY <1>2, InteropAssumption
<1> HIDE DEF c
<1>6. FlowOK(t, "over", o, he, ye, ra, <<>>, go, c, br)
  BY <1>3, <1>4, <1>5 DEF FlowOK
<1> QED BY <1>3, <1>6 DEF c

\* the refusal of a verb, after which nothing has happened,
LEMMA FlowRefused ==
    ASSUME NEW t \in Transports, NEW ph \in {"runs", "answered"}, NEW o \in Ops, NEW he, NEW ye, NEW ra, NEW fr,
           NEW go, NEW ou, NEW br, FlowOK(t, ph, o, he, ye, ra, fr, go, ou, br), fr # <<>>,
           VerbMatters(t, o), "status" \in DOMAIN Head(fr)
    PROVE  he = <<>> /\ ra = "none" /\ ye = <<>> /\ go = <<>>
<1>1. DOMAIN Head(fr) # {"event"} /\ DOMAIN Head(fr) # {"end"}
  OBVIOUS
<1>2. \A e : Head(fr) # ErrorFrame(t, o, e)
  BY ErrorShape
<1> QED BY <1>1, <1>2, NextFrame, FrameKinds

\* or loses its connection.
LEMMA FlowBreak ==
    ASSUME NEW t, NEW ph, NEW o, NEW he, NEW ye, NEW ra, NEW fr, NEW go, NEW ou, NEW br,
           FlowOK(t, ph, o, he, ye, ra, fr, go, ou, br)
    PROVE  FlowOK(t, "over", o, he, ye, ra, <<>>, go, "A2AClientError", TRUE)
BY DEF FlowOK

\* A call that has not reached the handler has nothing to say yet.
LEMMA FlowEmpty ==
    ASSUME NEW t, NEW ph \in {"idle", "sent"}, NEW o, NEW br
    PROVE  FlowOK(t, ph, o, <<>>, <<>>, "none", <<>>, <<>>, "none", br)
<1>1. SaidOK(t, <<>>, <<>>)
  BY InteropAssumption DEF SaidOK
<1>2. Len(<<>>) = 0
  BY ListOne
<1> QED BY <1>1, <1>2 DEF FlowOK

\* It reaches the handler,
LEMMA FlowHandle ==
    ASSUME NEW t, NEW o, NEW ye, NEW fr, NEW go, NEW ra, NEW ou, NEW br, NEW he, he # <<>>,
           FlowOK(t, "sent", o, <<>>, ye, ra, fr, go, ou, br)
    PROVE  FlowOK(t, "runs", o, he, ye, ra, fr, go, ou, br)
<1>1. ye = <<>> /\ go = <<>> /\ fr = <<>> /\ ra = "none"
  BY DEF FlowOK
<1>2. Len(<<>>) = 0 /\ IsList(<<>>) /\ Len(Last(t, o, "none")) = 0
  <2>1. Len(<<>>) = 0 /\ IsList(<<>>)
    BY ListOne
  <2>2. Len(Last(t, o, "none")) = 0
    BY LastOne, InteropAssumption
  <2> QED BY <2>1, <2>2
<1>3. OnTheWay(t, o, <<>>, "none", <<>>, <<>>)
  BY <1>2 DEF OnTheWay
<1> QED BY <1>1, <1>3 DEF FlowOK

\* or is refused,
LEMMA FlowRefuse ==
    ASSUME NEW t, NEW o, NEW ye, NEW fr, NEW go, NEW ra, NEW ou, NEW br, NEW f \in Refusals,
           FlowOK(t, "sent", o, <<>>, ye, ra, fr, go, ou, br)
    PROVE  FlowOK(t, "answered", o, <<>>, ye, ra, <<f>>, go, ou, br)
<1>1. ye = <<>> /\ go = <<>> /\ fr = <<>> /\ ra = "none"
  BY DEF FlowOK
<1> QED BY <1>1 DEF FlowOK

\* and one that was never sent has no outcome that says anything.
LEMMA FlowHome ==
    ASSUME NEW t, NEW ou, NEW br
    PROVE  FlowOK(t, "over", "none", <<>>, <<>>, "none", <<>>, <<>>, ou, br)
<1>1. SaidOK(t, <<>>, <<>>)
  BY InteropAssumption DEF SaidOK
<1> QED BY <1>1, InteropAssumption DEF FlowOK

-----------------------------------------------------------------------------
(* Every step keeps the invariant                                          *)

\* A step of a call leaves the others as they are.
At(c) == <<phase[c], op[c], wire[c], heard[c], yielded[c], raised[c], frames[c], got[c], outcome[c],
           refused[c], broke[c]>>

\* Nothing else of them changes.
LEMMA OthersKept ==
    ASSUME UNCHANGED <<world, plan>>, NEW d, CallOK(d), At(d)' = At(d)
    PROVE  CallOK(d)'
<1>1. /\ phase'[d] = phase[d] /\ op'[d] = op[d] /\ wire'[d] = wire[d] /\ heard'[d] = heard[d]
      /\ yielded'[d] = yielded[d] /\ raised'[d] = raised[d] /\ frames'[d] = frames[d] /\ got'[d] = got[d]
      /\ outcome'[d] = outcome[d] /\ refused'[d] = refused[d] /\ broke'[d] = broke[d]
  BY DEF At
<1>2. T' = T /\ plan'[d] = plan[d]
  BY DEF T
<1> QED BY <1>1, <1>2 DEF CallOK

\* What a step of call c has to show.
LEMMA StepKeeps ==
    ASSUME IInv, UNCHANGED <<world, plan>>, NEW c \in Calls, Types',
           card' \in [streaming : BOOLEAN, extended : BOOLEAN],
           override' \in {"none", "GET", "POST"} /\ auto' \in BOOLEAN,
           override' # "none" => T.legacy /\ T.binding = "HTTP+JSON",
           \A d \in Calls \ {c} : At(d)' = At(d),
           AskOK(world, plan[c], phase'[c], op'[c], wire'[c], heard'[c], refused'[c]),
           FlowOK(T, phase'[c], op'[c], heard'[c], yielded'[c], raised'[c], frames'[c], got'[c],
                  outcome'[c], broke'[c])
    PROVE  IInv'
<1>1. T' = T /\ plan'[c] = plan[c]
  BY DEF T
<1>2. Static'
  BY DEF IInv, Static
<1>3. ClientOK'
  BY <1>1 DEF ClientOK
<1>4. CallOK(c)'
  BY <1>1 DEF CallOK
<1>5. \A d \in Calls \ {c} : CallOK(d)'
  BY OthersKept DEF IInv
<1> QED BY <1>2, <1>3, <1>4, <1>5 DEF IInv

\* A function of the calls, changed at one of them.
LEMMA Changed ==
    ASSUME NEW f, f = [d \in Calls |-> f[d]], NEW c \in Calls, NEW x
    PROVE  LET g == [f EXCEPT ![c] = x]
           IN  g = [d \in Calls |-> g[d]] /\ g[c] = x /\ \A d \in Calls \ {c} : g[d] = f[d]
OBVIOUS

\* The same with values in a set.
LEMMA ChangedIn ==
    ASSUME NEW S, NEW f \in [Calls -> S], NEW c \in Calls, NEW x \in S
    PROVE  LET g == [f EXCEPT ![c] = x]
           IN  g \in [Calls -> S] /\ g[c] = x /\ \A d \in Calls \ {c} : g[d] = f[d]
OBVIOUS

\* A call that has been sent, and what it asks.
LEMMA Asked ==
    ASSUME IInv, NEW c \in Calls, phase[c] \in {"sent", "runs", "answered"}
    PROVE  /\ plan[c] # Absent /\ op[c] \in Ops /\ op[c] # "none" /\ Fits(op[c], plan[c])
           /\ heard[c] # <<>> => heard[c] = Heard(world, plan[c], op[c]) /\ heard[c][1].op = op[c]
           /\ phase[c] = "sent" => heard[c] = <<>>
           /\ phase[c] = "runs" => heard[c] # <<>>
           /\ heard[c] = <<>> /\ phase[c] = "answered" => VerbMatters(T, op[c])
<1>1. AskOK(world, plan[c], phase[c], op[c], wire[c], heard[c], refused[c])
  BY DEF IInv, CallOK
<1>2. op[c] # "none" /\ Fits(op[c], plan[c])
  BY <1>1 DEF AskOK
<1>3. Heard(world, plan[c], op[c])[1].op = op[c]
  BY DEF Heard
<1> QED BY <1>1, <1>2, <1>3 DEF AskOK, Fits, T

\* One lemma per action.
LEMMA EndsAtHomeKeeps ==
    ASSUME IInv, NEW c \in Calls, EndsAtHome(c)
    PROVE  IInv'
<1> DEFINE x == IF Unable(c) THEN "NotImplementedError" ELSE "ok"
<1>1. Types /\ CallOK(c) /\ ClientOK
  BY DEF IInv
<1>2. /\ phase' = [phase EXCEPT ![c] = "over"] /\ outcome' = [outcome EXCEPT ![c] = x] /\ phase[c] = "idle"
      /\ UNCHANGED <<world, plan, card, override, auto, op, wire, heard, yielded, raised, frames, got, broke, refused>>
  BY DEF EndsAtHome, client, server
<1>3. x \in {"none", "ok", "NotImplementedError", "A2AClientError"} \cup DOMAIN JsonRpcCode
  OBVIOUS
<1> HIDE DEF x
<1>4. /\ phase' \in [Calls -> {"idle", "sent", "runs", "answered", "over"}] /\ phase'[c] = "over"
      /\ \A d \in Calls \ {c} : phase'[d] = phase[d]
  BY <1>1, <1>2, ChangedIn DEF Types
<1>5. /\ outcome' \in [Calls -> {"none", "ok", "NotImplementedError", "A2AClientError"} \cup DOMAIN JsonRpcCode]
      /\ outcome'[c] = x /\ \A d \in Calls \ {c} : outcome'[d] = outcome[d]
  BY <1>1, <1>2, <1>3, ChangedIn DEF Types
<1>6. Types'
  BY <1>1, <1>2, <1>4, <1>5 DEF Types
<1>7. \A d \in Calls \ {c} : At(d)' = At(d)
  BY <1>2, <1>4, <1>5 DEF At
<1>8. /\ AskOK(world, plan[c], "idle", op[c], wire[c], heard[c], refused[c])
      /\ FlowOK(T, "idle", op[c], heard[c], yielded[c], raised[c], frames[c], got[c], outcome[c], broke[c])
  BY <1>1, <1>2 DEF CallOK
<1>9. op[c] = "none" /\ heard[c] = <<>> /\ yielded[c] = <<>> /\ raised[c] = "none" /\ frames[c] = <<>> /\ got[c] = <<>>
  BY <1>8 DEF AskOK, FlowOK
<1>10. AskOK(world, plan[c], phase'[c], op'[c], wire'[c], heard'[c], refused'[c])
  BY <1>2, <1>4, <1>8 DEF AskOK
<1>11. FlowOK(T, phase'[c], op'[c], heard'[c], yielded'[c], raised'[c], frames'[c], got'[c], outcome'[c], broke'[c])
  BY <1>2, <1>4, <1>9, FlowHome
<1> QED BY <1>1, <1>2, <1>6, <1>7, <1>10, <1>11, StepKeeps DEF ClientOK

\* A call is sent, with the target of its operation.
LEMMA SendKeeps ==
    ASSUME IInv, NEW c \in Calls, Send(c)
    PROVE  IInv'
<1> DEFINE o == Operation(c)
           x == <<Sent(o, Configured(c), Verb)>>
<1>1. Types /\ CallOK(c) /\ ClientOK /\ Static
  BY DEF IInv
<1>2. /\ phase' = [phase EXCEPT ![c] = "sent"] /\ op' = [op EXCEPT ![c] = o] /\ wire' = [wire EXCEPT ![c] = x]
      /\ phase[c] = "idle" /\ o \in DOMAIN Targets(T, Verb)
      /\ UNCHANGED <<world, plan, card, override, auto, heard, yielded, raised, frames, got, outcome, broke, refused>>
  BY DEF Send, Unable, client, server, result
<1>3. /\ AskOK(world, plan[c], "idle", op[c], wire[c], heard[c], refused[c])
      /\ FlowOK(T, "idle", op[c], heard[c], yielded[c], raised[c], frames[c], got[c], outcome[c], broke[c])
  BY <1>1, <1>2 DEF CallOK
<1>4. /\ op[c] = "none" /\ heard[c] = <<>> /\ yielded[c] = <<>> /\ raised[c] = "none" /\ frames[c] = <<>>
      /\ got[c] = <<>> /\ outcome[c] = "none" /\ plan[c] # Absent /\ (refused[c] => VerbMatters(T, "none"))
  BY <1>3 DEF AskOK, FlowOK, T
<1>5. ~refused[c]
  BY <1>4 DEF VerbMatters
<1>6. Fits(o, plan[c])
  <2>1. plan[c] \in Request
    BY <1>1, <1>4, TheWorld
  <2>2. plan[c].op \in (Unary \ {"SendMessage"}) \cup {"Send", "SubscribeToTask"}
    BY <2>1 DEF Request
  <2>3. plan[c].op = "Send" => o \in Sends /\ o \in Ops
    BY DEF Operation, Sends, Ops, Tasks
  <2>4. plan[c].op # "Send" => o = plan[c].op /\ o \in Ops
    BY <2>2 DEF Operation, Unary, Ops, Tasks, Others, Configs, Sends
  <2> QED BY <1>4, <2>3, <2>4 DEF Fits
<1>7. Verb \in {"GET", "POST"}
  BY <1>1 DEF ClientOK, Verb
<1>8. x = <<Wired(world, o, Wanted(world, plan[c]), Verb)>>
  BY SentIsWired, ConfiguredIsWanted
<1>9. o \in Ops /\ o # "none" /\ o \in Unary \cup Streams
  BY <1>6 DEF Fits, Ops, Unary, Tasks, Others, Configs, Sends
<1> HIDE DEF x, o
<1>10. /\ phase' \in [Calls -> {"idle", "sent", "runs", "answered", "over"}] /\ phase'[c] = "sent"
       /\ \A d \in Calls \ {c} : phase'[d] = phase[d]
  BY <1>1, <1>2, ChangedIn DEF Types
<1>11. /\ op' \in [Calls -> Unary \cup Streams \cup {"none"}] /\ op'[c] = o
       /\ \A d \in Calls \ {c} : op'[d] = op[d]
  BY <1>1, <1>2, <1>9, ChangedIn DEF Types
<1>12. /\ wire' = [d \in Calls |-> wire'[d]] /\ wire'[c] = x
       /\ \A d \in Calls \ {c} : wire'[d] = wire[d]
  BY <1>1, <1>2, Changed DEF Types
<1>13. Types'
  BY <1>1, <1>2, <1>10, <1>11, <1>12 DEF Types
<1>14. \A d \in Calls \ {c} : At(d)' = At(d)
  BY <1>2, <1>10, <1>11, <1>12 DEF At
<1>15. AskOK(world, plan[c], "sent", o, x, <<>>, FALSE)
  BY <1>2, <1>6, <1>7, <1>8, <1>9 DEF AskOK, T
<1>16. AskOK(world, plan[c], phase'[c], op'[c], wire'[c], heard'[c], refused'[c])
  <2>1. refused'[c] = FALSE
    BY <1>1, <1>2, <1>5 DEF Types
  <2> QED BY <1>2, <1>4, <1>10, <1>11, <1>12, <1>15, <2>1
<1>17. FlowOK(T, phase'[c], op'[c], heard'[c], yielded'[c], raised'[c], frames'[c], got'[c], outcome'[c], broke'[c])
  BY <1>2, <1>4, <1>10, FlowEmpty
<1> QED BY <1>1, <1>2, <1>13, <1>14, <1>16, <1>17, StepKeeps DEF ClientOK

\* Only a verb that an old REST server does not know is refused.
LEMMA RefuseKeeps ==
    ASSUME IInv, NEW c \in Calls, Refuse(c)
    PROVE  IInv'
<1> DEFINE o == op[c]
           w == wire[c][1]
           x == Unrouted(w.target)
<1>1. Types /\ CallOK(c) /\ ClientOK /\ Static
  BY DEF IInv
<1>2. /\ phase[c] = "sent" /\ phase' = [phase EXCEPT ![c] = "answered"] /\ refused' = [refused EXCEPT ![c] = TRUE]
      /\ Offered(w.target) = {} \/ ~IsVersionCompatible(w.version, Expected)
      /\ Offered(w.target) = {} => frames' = [frames EXCEPT ![c] = <<x>>]
      /\ UNCHANGED <<world, plan, card, override, auto, op, wire, heard, yielded, raised, got, outcome, broke>>
  BY DEF Refuse, client, server, result
<1>3. /\ AskOK(world, plan[c], "sent", o, wire[c], heard[c], refused[c])
      /\ FlowOK(T, "sent", o, heard[c], yielded[c], raised[c], frames[c], got[c], outcome[c], broke[c])
  BY <1>1, <1>2 DEF CallOK
<1>4. plan[c] # Absent /\ o \in Ops /\ o # "none" /\ Fits(o, plan[c]) /\ heard[c] = <<>>
  BY <1>2, Asked
<1>5. PICK v \in {"GET", "POST"} :
        o \in DOMAIN Targets(Chosen(world)[1], v) /\ wire[c] = <<Wired(world, o, Wanted(world, plan[c]), v)>>
  BY <1>3, <1>4 DEF AskOK
<1>6. /\ Offered(w.target) = IF VerbMatters(T, o) /\ v \notin world.verbs THEN {} ELSE {o}
      /\ IsVersionCompatible(w.version, Expected)
  <2>1. w = Wired(world, o, Wanted(world, plan[c]), v)
    BY <1>5
  <2>2. o \in DOMAIN Targets(T, v)
    BY <1>5 DEF T
  <2>3. Static /\ plan[c] # Absent
    BY <1>1, <1>4
  <2> HIDE DEF w, o, x
  <2>4. /\ Offered(w.target) = IF VerbMatters(T, o) /\ v \notin world.verbs THEN {} ELSE {o}
        /\ IsVersionCompatible(w.version, Expected)
        /\ <<[op |-> o, data |-> Read(T, o, w.data)]>> = Heard(world, plan[c], o)
    BY ONLY c \in Calls, v \in {"GET", "POST"}, <2>1, <2>2, <2>3, WireReaches
  <2> QED BY <2>4 DEF x
<1>7. VerbMatters(T, o) /\ v \notin world.verbs /\ frames' = [frames EXCEPT ![c] = <<x>>]
  BY <1>2, <1>6
<1>8. x \in Refusals
  BY <1>7 DEF Unrouted, Refusals, VerbMatters
<1> HIDE DEF x
<1>9. /\ phase' \in [Calls -> {"idle", "sent", "runs", "answered", "over"}] /\ phase'[c] = "answered"
      /\ \A d \in Calls \ {c} : phase'[d] = phase[d]
  BY <1>1, <1>2, ChangedIn DEF Types
<1>10. refused' \in [Calls -> BOOLEAN] /\ refused'[c] = TRUE /\ \A d \in Calls \ {c} : refused'[d] = refused[d]
  BY <1>1, <1>2, ChangedIn DEF Types
<1>11. frames' = [d \in Calls |-> frames'[d]] /\ frames'[c] = <<x>> /\ \A d \in Calls \ {c} : frames'[d] = frames[d]
  BY <1>1, <1>7, Changed DEF Types
<1>12. Types'
  BY <1>1, <1>2, <1>9, <1>10, <1>11 DEF Types
<1>13. \A d \in Calls \ {c} : At(d)' = At(d)
  BY <1>2, <1>9, <1>10, <1>11 DEF At
<1>14. AskOK(world, plan[c], "answered", o, wire[c], heard[c], TRUE)
  BY <1>3, <1>4, <1>5, <1>7 DEF AskOK, T
<1>15. AskOK(world, plan[c], phase'[c], op'[c], wire'[c], heard'[c], refused'[c])
  BY <1>2, <1>9, <1>10, <1>14
<1>16. FlowOK(T, phase'[c], op'[c], heard'[c], yielded'[c], raised'[c], frames'[c], got'[c], outcome'[c], broke'[c])
  BY <1>2, <1>3, <1>4, <1>8, <1>9, <1>11, FlowRefuse
<1> QED BY <1>1, <1>2, <1>12, <1>13, <1>15, <1>16, StepKeeps DEF ClientOK

\* The handler is asked what the caller wanted.
LEMMA HandleKeeps ==
    ASSUME IInv, NEW c \in Calls, Handle(c)
    PROVE  IInv'
<1> DEFINE o == op[c]
           w == wire[c][1]
           x == Heard(world, plan[c], o)
<1>1. Types /\ CallOK(c) /\ ClientOK /\ Static
  BY DEF IInv
<1>2. /\ phase[c] = "sent" /\ phase' = [phase EXCEPT ![c] = "runs"]
      /\ \E u \in Offered(w.target) :
           heard' = [heard EXCEPT ![c] = <<[op |-> u, data |-> Read(T, u, w.data)]>>]
      /\ UNCHANGED <<world, plan, card, override, auto, op, wire, yielded, raised, frames, got, outcome, broke, refused>>
  BY DEF Handle, client, result
<1>3. /\ AskOK(world, plan[c], "sent", o, wire[c], heard[c], refused[c])
      /\ FlowOK(T, "sent", o, heard[c], yielded[c], raised[c], frames[c], got[c], outcome[c], broke[c])
  BY <1>1, <1>2 DEF CallOK
<1>4. plan[c] # Absent /\ o \in Ops /\ o # "none" /\ Fits(o, plan[c]) /\ heard[c] = <<>>
  BY <1>2, Asked
<1>5. PICK v \in {"GET", "POST"} :
        o \in DOMAIN Targets(Chosen(world)[1], v) /\ wire[c] = <<Wired(world, o, Wanted(world, plan[c]), v)>>
  BY <1>3, <1>4 DEF AskOK
<1>6. /\ Offered(w.target) = IF VerbMatters(T, o) /\ v \notin world.verbs THEN {} ELSE {o}
      /\ <<[op |-> o, data |-> Read(T, o, w.data)]>> = x
  <2>1. w = Wired(world, o, Wanted(world, plan[c]), v)
    BY <1>5
  <2>2. o \in DOMAIN Targets(T, v)
    BY <1>5 DEF T
  <2>3. Static /\ plan[c] # Absent
    BY <1>1, <1>4
  <2> HIDE DEF w, o, x
  <2>4. /\ Offered(w.target) = IF VerbMatters(T, o) /\ v \notin world.verbs THEN {} ELSE {o}
        /\ IsVersionCompatible(w.version, Expected)
        /\ <<[op |-> o, data |-> Read(T, o, w.data)]>> = Heard(world, plan[c], o)
    BY ONLY c \in Calls, v \in {"GET", "POST"}, <2>1, <2>2, <2>3, WireReaches
  <2> QED BY <2>4 DEF x
<1>7. heard' = [heard EXCEPT ![c] = x] /\ (VerbMatters(T, o) => v \in world.verbs)
  BY <1>2, <1>6
<1>8. x # <<>>
  BY DEF Heard
<1> HIDE DEF x
<1>9. /\ phase' \in [Calls -> {"idle", "sent", "runs", "answered", "over"}] /\ phase'[c] = "runs"
      /\ \A d \in Calls \ {c} : phase'[d] = phase[d]
  BY <1>1, <1>2, ChangedIn DEF Types
<1>10. heard' = [d \in Calls |-> heard'[d]] /\ heard'[c] = x /\ \A d \in Calls \ {c} : heard'[d] = heard[d]
  BY <1>1, <1>7, Changed DEF Types
<1>11. Types'
  BY <1>1, <1>2, <1>9, <1>10 DEF Types
<1>12. \A d \in Calls \ {c} : At(d)' = At(d)
  BY <1>2, <1>9, <1>10 DEF At
<1>13. AskOK(world, plan[c], "runs", o, wire[c], x, refused[c])
  BY <1>3, <1>4, <1>5, <1>7, <1>8 DEF AskOK, x, T
<1>14. AskOK(world, plan[c], phase'[c], op'[c], wire'[c], heard'[c], refused'[c])
  BY <1>2, <1>9, <1>10, <1>13
<1>15. FlowOK(T, phase'[c], op'[c], heard'[c], yielded'[c], raised'[c], frames'[c], got'[c], outcome'[c], broke'[c])
  BY <1>2, <1>3, <1>4, <1>8, <1>9, <1>10, FlowHandle
<1> QED BY <1>1, <1>2, <1>11, <1>12, <1>14, <1>15, StepKeeps DEF ClientOK

\* An answer without its history is still whole.
LEMMA TrimmedWhole ==
    ASSUME NEW e \in Events, NEW o, NEW d
    PROVE  Trimmed(e, o, d) \in Whole
<1> DEFINE x == [e EXCEPT !.history = Absent]
<1>1. e \in Event(Message) /\ IsWhole(e)
  BY InteropAssumption
<1>2. x \in [kind : {e.kind}, status : {e.status}, history : {Absent}, artifact : {e.artifact},
             message : {e.message}, push : {e.push}, final : {FALSE}]
  BY <1>1 DEF Event
<1> HIDE DEF x
<1>3. /\ x.kind = e.kind /\ x.status = e.status /\ x.history = Absent /\ x.artifact = e.artifact
      /\ x.message = e.message /\ x.push = e.push
  BY <1>2
<1>4. IsWhole(x)
  BY <1>1, <1>3 DEF IsWhole
<1>5. x \in Event(Message)
  BY <1>1, <1>2 DEF Event
<1> QED BY <1>1, <1>4, <1>5 DEF Trimmed, Whole, x

\* A running call has been asked something, and goes on or is answered.
LEMMA Running ==
    ASSUME IInv, NEW c \in Calls, phase[c] = "runs"
    PROVE  /\ op[c] \in Ops /\ heard[c] # <<>> /\ heard[c][1].op = op[c] /\ raised[c] = "none"
           /\ FlowOK(T, "runs", op[c], heard[c], yielded[c], "none", frames[c], got[c], outcome[c], broke[c])
           /\ \A ph \in {"runs", "answered"} :
                AskOK(world, plan[c], ph, op[c], wire[c], heard[c], refused[c])
<1>1. /\ AskOK(world, plan[c], "runs", op[c], wire[c], heard[c], refused[c])
      /\ FlowOK(T, "runs", op[c], heard[c], yielded[c], raised[c], frames[c], got[c], outcome[c], broke[c])
  BY DEF IInv, CallOK
<1>2. op[c] \in Ops /\ heard[c] # <<>> /\ heard[c][1].op = op[c]
  BY Asked
<1>3. raised[c] = "none"
  BY <1>1 DEF FlowOK
<1>4. AskOK(world, plan[c], "answered", op[c], wire[c], heard[c], refused[c])
  BY <1>1, <1>2 DEF AskOK
<1> QED BY <1>1, <1>2, <1>3, <1>4

\* An event is said and follows those on their way.
LEMMA YieldKeeps ==
    ASSUME IInv, NEW c \in Calls, Yield(c)
    PROVE  IInv'
<1> DEFINE o == op[c]
<1>1. Types /\ ClientOK
  BY DEF IInv
<1>2. /\ o \in Ops /\ heard[c] # <<>> /\ heard[c][1].op = o /\ raised[c] = "none"
      /\ FlowOK(T, "runs", o, heard[c], yielded[c], "none", frames[c], got[c], outcome[c], broke[c])
      /\ \A ph \in {"runs", "answered"} : AskOK(world, plan[c], ph, o, wire[c], heard[c], refused[c])
  BY Running DEF Yield
<1>3. PICK e \in Events :
        LET answer == Trimmed(e, heard[c][1].op, heard[c][1].data)
        IN  /\ yielded' = [yielded EXCEPT ![c] = Append(yielded[c], answer)]
            /\ frames' = [frames EXCEPT ![c] = Append(frames[c], [event |-> Reply(T, answer)])]
  BY DEF Yield
<1> DEFINE x  == Trimmed(e, o, heard[c][1].data)
           ye == Append(yielded[c], x)
           fr == Append(frames[c], EventFrame(T, x))
           ra == IF o \in Streams THEN "none" ELSE "returned"
           ph == IF o \in Streams THEN "runs" ELSE "answered"
<1>4. /\ yielded' = [yielded EXCEPT ![c] = ye] /\ frames' = [frames EXCEPT ![c] = fr]
      /\ phase[c] = "runs" /\ Len(yielded[c]) < (IF o \in Streams THEN MaxEvents ELSE 1)
      /\ phase' = (IF o \in Streams THEN phase ELSE [phase EXCEPT ![c] = "answered"])
      /\ raised' = (IF o \in Streams THEN raised ELSE [raised EXCEPT ![c] = "returned"])
      /\ UNCHANGED <<world, plan, card, override, auto, op, wire, heard, got, outcome, broke, refused>>
  BY <1>2, <1>3 DEF Yield, client, result, EventFrame
<1>5. FlowOK(T, ph, o, heard[c], ye, ra, fr, got[c], outcome[c], broke[c])
  BY <1>2, <1>4, TrimmedWhole, FlowYield
<1>6. AskOK(world, plan[c], ph, o, wire[c], heard[c], refused[c])
  BY <1>2
<1> HIDE DEF ye, fr
<1>7. /\ phase' \in [Calls -> {"idle", "sent", "runs", "answered", "over"}] /\ phase'[c] = ph
      /\ \A d \in Calls \ {c} : phase'[d] = phase[d]
  BY <1>1, <1>4, ChangedIn DEF Types
<1>8. /\ raised' \in [Calls -> Failures \cup {"none", "returned"}] /\ raised'[c] = ra
      /\ \A d \in Calls \ {c} : raised'[d] = raised[d]
  BY <1>1, <1>2, <1>4, ChangedIn DEF Types
<1>9. yielded' = [d \in Calls |-> yielded'[d]] /\ yielded'[c] = ye /\ \A d \in Calls \ {c} : yielded'[d] = yielded[d]
  BY <1>1, <1>4, Changed DEF Types
<1>10. frames' = [d \in Calls |-> frames'[d]] /\ frames'[c] = fr /\ \A d \in Calls \ {c} : frames'[d] = frames[d]
  BY <1>1, <1>4, Changed DEF Types
<1> HIDE DEF ph, ra
<1>11. Types'
  BY <1>1, <1>4, <1>7, <1>8, <1>9, <1>10 DEF Types
<1>12. \A d \in Calls \ {c} : At(d)' = At(d)
  BY <1>4, <1>7, <1>8, <1>9, <1>10 DEF At
<1>13. AskOK(world, plan[c], phase'[c], op'[c], wire'[c], heard'[c], refused'[c])
  BY <1>4, <1>6, <1>7
<1>14. FlowOK(T, phase'[c], op'[c], heard'[c], yielded'[c], raised'[c], frames'[c], got'[c], outcome'[c], broke'[c])
  BY <1>4, <1>5, <1>7, <1>8, <1>9, <1>10
<1> QED BY <1>1, <1>4, <1>11, <1>12, <1>13, <1>14, StepKeeps DEF ClientOK

\* The end of a stream, or an error: what Finish and Raise have in common.
LEMMA AnsweredKeeps ==
    ASSUME IInv, NEW c \in Calls, phase[c] = "runs", NEW ra, NEW x,
           ra \in Failures \/ (ra = "returned" /\ op[c] \in Streams), x = Last(T, op[c], ra)[1],
           raised' = [raised EXCEPT ![c] = ra], frames' = [frames EXCEPT ![c] = Append(frames[c], x)],
           phase' = [phase EXCEPT ![c] = "answered"],
           UNCHANGED <<world, plan, card, override, auto, op, wire, heard, yielded, got, outcome, broke, refused>>
    PROVE  IInv'
<1> DEFINE o  == op[c]
           fr == Append(frames[c], x)
<1>1. Types /\ ClientOK
  BY DEF IInv
<1>2. /\ o \in Ops /\ heard[c] # <<>>
      /\ FlowOK(T, "runs", o, heard[c], yielded[c], "none", frames[c], got[c], outcome[c], broke[c])
      /\ AskOK(world, plan[c], "answered", o, wire[c], heard[c], refused[c])
  BY Running
<1>3. FlowOK(T, "answered", o, heard[c], yielded[c], ra, fr, got[c], outcome[c], broke[c])
  BY <1>2, FlowLast
<1> HIDE DEF fr
<1>4. /\ phase' \in [Calls -> {"idle", "sent", "runs", "answered", "over"}] /\ phase'[c] = "answered"
      /\ \A d \in Calls \ {c} : phase'[d] = phase[d]
  BY <1>1, ChangedIn DEF Types
<1>5. /\ raised' \in [Calls -> Failures \cup {"none", "returned"}] /\ raised'[c] = ra
      /\ \A d \in Calls \ {c} : raised'[d] = raised[d]
  BY <1>1, ChangedIn DEF Types
<1>6. frames' = [d \in Calls |-> frames'[d]] /\ frames'[c] = fr /\ \A d \in Calls \ {c} : frames'[d] = frames[d]
  BY <1>1, Changed DEF Types, fr
<1>7. Types'
  BY <1>1, <1>4, <1>5, <1>6 DEF Types
<1>8. \A d \in Calls \ {c} : At(d)' = At(d)
  BY <1>4, <1>5, <1>6 DEF At
<1>9. AskOK(world, plan[c], phase'[c], op'[c], wire'[c], heard'[c], refused'[c])
  BY <1>2, <1>4
<1>10. FlowOK(T, phase'[c], op'[c], heard'[c], yielded'[c], raised'[c], frames'[c], got'[c], outcome'[c], broke'[c])
  BY <1>3, <1>4, <1>5, <1>6
<1> QED BY <1>1, <1>7, <1>8, <1>9, <1>10, StepKeeps DEF ClientOK

\* The end follows the events,
LEMMA FinishKeeps ==
    ASSUME IInv, NEW c \in Calls, Finish(c)
    PROVE  IInv'
<1>1. heard[c][1].op = op[c] /\ op[c] \in Streams
  BY Running DEF Finish
<1>2. Last(T, op[c], "returned")[1] = [end |-> TRUE]
  BY <1>1, LastOne DEF EndFrame
<1>3. /\ phase[c] = "runs" /\ raised' = [raised EXCEPT ![c] = "returned"]
      /\ frames' = [frames EXCEPT ![c] = Append(frames[c], [end |-> TRUE])]
      /\ phase' = [phase EXCEPT ![c] = "answered"]
      /\ UNCHANGED <<world, plan, card, override, auto, op, wire, heard, yielded, got, outcome, broke, refused>>
  BY DEF Finish, client, result
<1> QED BY <1>1, <1>2, <1>3, AnsweredKeeps

\* or the error does.
LEMMA RaiseKeeps ==
    ASSUME IInv, NEW c \in Calls, Raise(c)
    PROVE  IInv'
<1>1. PICK e \in world.raises :
        /\ raised' = [raised EXCEPT ![c] = e]
        /\ frames' = [frames EXCEPT ![c] = Append(frames[c], ErrorFrame(T, heard[c][1].op, e))]
  BY DEF Raise
<1>2. e \in Failures
  BY <1>1, TheWorld DEF IInv, IsWorld
<1>3. heard[c][1].op = op[c]
  BY Running DEF Raise
<1>4. Last(T, op[c], e)[1] = ErrorFrame(T, op[c], e)
  BY <1>2, LastOne
<1>5. /\ phase[c] = "runs" /\ phase' = [phase EXCEPT ![c] = "answered"]
      /\ UNCHANGED <<world, plan, card, override, auto, op, wire, heard, yielded, got, outcome, broke, refused>>
  BY DEF Raise, client, result
<1> QED BY <1>1, <1>2, <1>3, <1>4, <1>5, AnsweredKeeps

\* A call that is over: what the steps that close one have in common.
LEMMA ClosedKeeps ==
    ASSUME IInv, NEW c \in Calls, phase[c] \in {"sent", "runs", "answered"}, NEW x,
           x \in {"none", "ok", "NotImplementedError", "A2AClientError"} \cup DOMAIN JsonRpcCode, Close(c, x),
           UNCHANGED <<world, plan, op, wire, heard, yielded, raised, refused>>,
           card' \in [streaming : BOOLEAN, extended : BOOLEAN],
           override' \in {"none", "GET", "POST"} /\ auto' \in BOOLEAN,
           override' # "none" => T.legacy /\ T.binding = "HTTP+JSON",
           got' = [d \in Calls |-> got'[d]], \A d \in Calls \ {c} : got'[d] = got[d],
           broke' \in [Calls -> BOOLEAN], \A d \in Calls \ {c} : broke'[d] = broke[d],
           FlowOK(T, "over", op[c], heard[c], yielded[c], raised[c], <<>>, got'[c], x, broke'[c])
    PROVE  IInv'
<1>1. Types /\ CallOK(c)
  BY DEF IInv
<1>2. /\ phase' \in [Calls -> {"idle", "sent", "runs", "answered", "over"}] /\ phase'[c] = "over"
      /\ \A d \in Calls \ {c} : phase'[d] = phase[d]
  BY <1>1, ChangedIn DEF Types, Close
<1>3. /\ outcome' \in [Calls -> {"none", "ok", "NotImplementedError", "A2AClientError"} \cup DOMAIN JsonRpcCode]
      /\ outcome'[c] = x /\ \A d \in Calls \ {c} : outcome'[d] = outcome[d]
  BY <1>1, ChangedIn DEF Types, Close
<1>4. frames' = [d \in Calls |-> frames'[d]] /\ frames'[c] = <<>> /\ \A d \in Calls \ {c} : frames'[d] = frames[d]
  BY <1>1, Changed DEF Types, Close
<1>5. Types'
  BY <1>1, <1>2, <1>3, <1>4 DEF Types
<1>6. \A d \in Calls \ {c} : At(d)' = At(d)
  BY <1>2, <1>3, <1>4 DEF At
<1>7. AskOK(world, plan[c], "over", op[c], wire[c], heard[c], refused[c])
  BY <1>1 DEF AskOK, CallOK
<1>8. AskOK(world, plan[c], phase'[c], op'[c], wire'[c], heard'[c], refused'[c])
  BY <1>2, <1>7
<1>9. FlowOK(T, phase'[c], op'[c], heard'[c], yielded'[c], raised'[c], frames'[c], got'[c], outcome'[c], broke'[c])
  BY <1>2, <1>3, <1>4
<1> QED BY <1>5, <1>6, <1>8, <1>9, StepKeeps

\* A call whose response the client reads.
LEMMA Reading ==
    ASSUME IInv, NEW c \in Calls, Waiting(c)
    PROVE  /\ phase[c] \in {"runs", "answered"} /\ frames[c] # <<>> /\ op[c] \in Ops /\ T \in Transports
           /\ Types /\ ClientOK /\ Static
           /\ heard[c] = <<>> => phase[c] = "answered" /\ VerbMatters(T, op[c])
           /\ FlowOK(T, phase[c], op[c], heard[c], yielded[c], raised[c], frames[c], got[c], outcome[c], broke[c])
<1>1. phase[c] \in {"runs", "answered"} /\ frames[c] # <<>>
  BY DEF Waiting
<1>2. op[c] \in Ops /\ (heard[c] = <<>> => phase[c] = "answered" /\ VerbMatters(T, op[c]))
  BY <1>1, Asked
<1>3. Types /\ ClientOK /\ Static /\ T \in Transports
  BY TheWorld DEF IInv
<1>4. FlowOK(T, phase[c], op[c], heard[c], yielded[c], raised[c], frames[c], got[c], outcome[c], broke[c])
  BY DEF IInv, CallOK
<1> QED BY <1>1, <1>2, <1>3, <1>4

\* The card that the client has after it has read the extended one.
LEMMA ExtendedIsCard ==
    ASSUME Static, card \in [streaming : BOOLEAN, extended : BOOLEAN]
    PROVE  Extended \in [streaming : BOOLEAN, extended : BOOLEAN]
<1> DEFINE k == world.extendedCard
           z == ToCompatCard(k)[1]
<1>1. k \in Card /\ (T.legacy => ToCompatCard(k) # <<>>)
  BY TheWorld DEF IsWorld
<1>2. k.streaming \in BOOLEAN /\ k.extended \in BOOLEAN
  BY <1>1 DEF Card
<1>3. CASE T.legacy
  <2>1. z.capabilities = [streaming |-> k.streaming] /\ z.supportsExtended = k.extended
    BY <1>1, <1>3, CompatCard
  <2> HIDE DEF z
  <2>2. [streaming |-> z.capabilities.streaming, extended |-> z.supportsExtended]
          \in [streaming : BOOLEAN, extended : BOOLEAN]
    BY <1>2, <2>1
  <2> QED BY <1>3, <2>2 DEF Extended, ThroughCompat, ToCoreCapabilities, z
<1>4. CASE ~T.legacy
  BY <1>2, <1>4 DEF Extended
<1> QED BY <1>3, <1>4

\* The caller gets the next event, and a message or a single answer is its last.
LEMMA TakeEventKeeps ==
    ASSUME IInv, NEW c \in Calls, TakeEvent(c)
    PROVE  IInv'
<1> DEFINE e == Understood(T, Frame(c).event)
           g == Append(got[c], e)
           last == op[c] \in Unary \/ e.kind = "message"
<1>1. /\ phase[c] \in {"runs", "answered"} /\ frames[c] # <<>> /\ op[c] \in Ops /\ T \in Transports
      /\ Types /\ ClientOK /\ Static
      /\ FlowOK(T, phase[c], op[c], heard[c], yielded[c], raised[c], frames[c], got[c], outcome[c], broke[c])
  BY Reading DEF TakeEvent
<1>2. /\ "event" \in DOMAIN Frame(c) /\ got' = [got EXCEPT ![c] = g]
      /\ last => Close(c, "ok")
      /\ ~last => frames' = [frames EXCEPT ![c] = Tail(frames[c])] /\ UNCHANGED <<phase, outcome>>
      /\ card' = (IF op[c] = "GetExtendedAgentCard" THEN Extended ELSE card)
      /\ UNCHANGED <<world, plan, override, auto, op, wire, heard, yielded, raised, broke, refused>>
  BY DEF TakeEvent, server
<1>3. card' \in [streaming : BOOLEAN, extended : BOOLEAN]
  BY <1>1, <1>2, ExtendedIsCard DEF ClientOK
<1>4. /\ last => FlowOK(T, "over", op[c], heard[c], yielded[c], raised[c], <<>>, g, "ok", broke[c])
      /\ op[c] \notin Unary =>
           FlowOK(T, phase[c], op[c], heard[c], yielded[c], raised[c], Tail(frames[c]), g, outcome[c], broke[c])
  BY <1>1, <1>2, FlowTake DEF Frame
<1> HIDE DEF e, g
<1>5. got' = [d \in Calls |-> got'[d]] /\ got'[c] = g /\ \A d \in Calls \ {c} : got'[d] = got[d]
  BY <1>1, <1>2, Changed DEF Types
<1>6. CASE last
  <2>1. /\ broke' \in [Calls -> BOOLEAN] /\ broke' = broke
        /\ override' \in {"none", "GET", "POST"} /\ auto' \in BOOLEAN
        /\ override' # "none" => T.legacy /\ T.binding = "HTTP+JSON"
    BY <1>1, <1>2 DEF Types, ClientOK
  <2>2. FlowOK(T, "over", op[c], heard[c], yielded[c], raised[c], <<>>, got'[c], "ok", broke'[c])
    BY <1>4, <1>5, <1>6, <2>1
  <2>3. Close(c, "ok") /\ phase[c] \in {"sent", "runs", "answered"}
    BY <1>1, <1>2, <1>6
  <2> HIDE DEF last
  <2> QED BY <1>2, <1>3, <1>5, <2>1, <2>2, <2>3, ClosedKeeps
<1>7. CASE ~last
  <2> DEFINE fr == Tail(frames[c])
  <2>1. frames' = [frames EXCEPT ![c] = fr] /\ phase' = phase /\ outcome' = outcome
    BY <1>2, <1>7
  <2>2. FlowOK(T, phase[c], op[c], heard[c], yielded[c], raised[c], fr, g, outcome[c], broke[c])
    BY <1>4, <1>7
  <2>3. AskOK(world, plan[c], phase[c], op[c], wire[c], heard[c], refused[c])
    BY DEF IInv, CallOK
  <2> HIDE DEF fr, last
  <2>4. frames' = [d \in Calls |-> frames'[d]] /\ frames'[c] = fr /\ \A d \in Calls \ {c} : frames'[d] = frames[d]
    BY <1>1, <2>1, Changed DEF Types
  <2>5. Types'
    BY <1>1, <1>2, <1>5, <2>1, <2>4 DEF Types
  <2>6. \A d \in Calls \ {c} : At(d)' = At(d)
    BY <1>2, <1>5, <2>1, <2>4 DEF At
  <2>7. AskOK(world, plan[c], phase'[c], op'[c], wire'[c], heard'[c], refused'[c])
    BY <1>2, <2>1, <2>3
  <2>8. FlowOK(T, phase'[c], op'[c], heard'[c], yielded'[c], raised'[c], frames'[c], got'[c], outcome'[c], broke'[c])
    BY <1>2, <1>5, <2>1, <2>2, <2>4
  <2> QED BY <1>1, <1>2, <1>3, <2>5, <2>6, <2>7, <2>8, StepKeeps DEF ClientOK
<1> QED BY <1>6, <1>7

\* What ClosedKeeps asks of a step that leaves the client and what has arrived alone.
LEMMA PlainClose ==
    ASSUME IInv, NEW c \in Calls, phase[c] \in {"sent", "runs", "answered"}, NEW x,
           x \in {"none", "ok", "NotImplementedError", "A2AClientError"} \cup DOMAIN JsonRpcCode, Close(c, x),
           UNCHANGED <<world, plan, card, override, auto, op, wire, heard, yielded, raised, got, refused>>,
           broke' \in [Calls -> BOOLEAN], \A d \in Calls \ {c} : broke'[d] = broke[d],
           FlowOK(T, "over", op[c], heard[c], yielded[c], raised[c], <<>>, got[c], x, broke'[c])
    PROVE  IInv'
<1>1. got' = [d \in Calls |-> got'[d]] /\ got' = got
  BY DEF IInv, Types
<1>2. /\ card' \in [streaming : BOOLEAN, extended : BOOLEAN]
      /\ override' \in {"none", "GET", "POST"} /\ auto' \in BOOLEAN
      /\ override' # "none" => T.legacy /\ T.binding = "HTTP+JSON"
  BY DEF IInv, ClientOK
<1> QED BY <1>1, <1>2, ClosedKeeps

\* It is told the end when it has everything,
LEMMA TakeEndKeeps ==
    ASSUME IInv, NEW c \in Calls, TakeEnd(c)
    PROVE  IInv'
<1>1. /\ phase[c] \in {"runs", "answered"} /\ frames[c] # <<>> /\ op[c] \in Ops /\ T \in Transports /\ Types
      /\ FlowOK(T, phase[c], op[c], heard[c], yielded[c], raised[c], frames[c], got[c], outcome[c], broke[c])
  BY Reading DEF TakeEnd
<1>2. /\ "end" \in DOMAIN Head(frames[c]) /\ Close(c, "ok")
      /\ UNCHANGED <<world, plan, card, override, auto, op, wire, heard, yielded, raised, got, broke, refused>>
  BY DEF TakeEnd, Frame, client, server
<1>3. FlowOK(T, "over", op[c], heard[c], yielded[c], raised[c], <<>>, got[c], "ok", broke[c])
  BY <1>1, <1>2, FlowEnd
<1>4. broke' = broke /\ broke' \in [Calls -> BOOLEAN]
  BY <1>1, <1>2 DEF Types
<1> QED BY <1>1, <1>2, <1>3, <1>4, PlainClose

\* or the error when it has everything before it,
LEMMA TakeErrorKeeps ==
    ASSUME IInv, NEW c \in Calls, TakeError(c)
    PROVE  IInv'
<1> DEFINE x == ErrorClass(T, Head(frames[c]))
<1>1. /\ phase[c] \in {"runs", "answered"} /\ frames[c] # <<>> /\ op[c] \in Ops /\ T \in Transports /\ Types
      /\ heard[c] = <<>> => VerbMatters(T, op[c])
      /\ FlowOK(T, phase[c], op[c], heard[c], yielded[c], raised[c], frames[c], got[c], outcome[c], broke[c])
  BY Reading DEF TakeError
<1>2. /\ IsError(Head(frames[c])) /\ Close(c, x)
      /\ UNCHANGED <<world, plan, card, override, auto, op, wire, heard, yielded, raised, got, broke, refused>>
  BY DEF TakeError, Frame, client, server
<1>3. heard[c] = <<>> => T.legacy
  BY <1>1 DEF VerbMatters
<1>4. /\ x \in {"A2AClientError"} \cup DOMAIN JsonRpcCode
      /\ FlowOK(T, "over", op[c], heard[c], yielded[c], raised[c], <<>>, got[c], x, broke[c])
  BY <1>1, <1>2, <1>3, FlowError
<1>5. broke' = broke /\ broke' \in [Calls -> BOOLEAN]
  BY <1>1, <1>2 DEF Types
<1> HIDE DEF x
<1> QED BY <1>1, <1>2, <1>4, <1>5, PlainClose

\* or loses the connection anywhere,
LEMMA BreakKeeps ==
    ASSUME IInv, NEW c \in Calls, Break(c)
    PROVE  IInv'
<1>1. /\ phase[c] \in {"sent", "runs", "answered"} /\ Close(c, "A2AClientError")
      /\ broke' = [broke EXCEPT ![c] = TRUE]
      /\ UNCHANGED <<world, plan, card, override, auto, op, wire, heard, yielded, raised, got, refused>>
  BY DEF Break, client, server
<1>2. broke' \in [Calls -> BOOLEAN] /\ broke'[c] = TRUE /\ \A d \in Calls \ {c} : broke'[d] = broke[d]
  BY <1>1, ChangedIn DEF IInv, Types
<1>3. FlowOK(T, "over", op[c], heard[c], yielded[c], raised[c], <<>>, got[c], "A2AClientError", TRUE)
  BY FlowBreak DEF IInv, CallOK
<1> QED BY <1>1, <1>2, <1>3, PlainClose

\* The subscription of the old REST transport.
LEMMA SubscribeTarget ==
    ASSUME NEW t, t.legacy, t.binding = "HTTP+JSON", NEW v
    PROVE  /\ "SubscribeToTask" \in DOMAIN Targets(t, v)
           /\ Targets(t, v)["SubscribeToTask"] = <<v, Subscribe03>>
<1>1. Targets(t, v) = Both(RestTasks03, Both(RestOthers03, RestSubscribe03(v)))
  BY DEF Targets
<1> QED BY <1>1 DEF Both, RestTasks03, RestOthers03, RestSubscribe03, Subscribe03

\* or sends the refused subscription again, or gives up.
LEMMA FallBackKeeps ==
    ASSUME IInv, NEW c \in Calls, FallBack(c)
    PROVE  IInv'
<1>1. /\ phase[c] \in {"runs", "answered"} /\ frames[c] # <<>> /\ op[c] \in Ops /\ T \in Transports
      /\ Types /\ ClientOK /\ Static
      /\ FlowOK(T, phase[c], op[c], heard[c], yielded[c], raised[c], frames[c], got[c], outcome[c], broke[c])
  BY Reading DEF FallBack
<1>2. VerbMatters(T, op[c]) /\ "status" \in DOMAIN Head(frames[c])
  BY DEF FallBack, WrongVerb, VerbMatters, Frame
<1>3. heard[c] = <<>> /\ raised[c] = "none" /\ yielded[c] = <<>> /\ got[c] = <<>>
  BY <1>1, <1>2, FlowRefused
<1>4. T.legacy /\ T.binding = "HTTP+JSON" /\ op[c] = "SubscribeToTask"
  BY <1>2 DEF VerbMatters
<1>5. UNCHANGED <<world, plan, card, op, heard, yielded, raised, got, broke, refused>>
  BY DEF FallBack, server
<1>6. card' \in [streaming : BOOLEAN, extended : BOOLEAN] /\ auto \in BOOLEAN
  BY <1>1, <1>5 DEF ClientOK
<1>7. CASE override = "none"
  <2> DEFINE x == <<Sent("SubscribeToTask", Configured(c), "GET")>>
  <2>1. /\ override' = "GET" /\ auto' = auto /\ wire' = [wire EXCEPT ![c] = x]
        /\ phase' = [phase EXCEPT ![c] = "sent"] /\ frames' = [frames EXCEPT ![c] = <<>>] /\ outcome' = outcome
    BY <1>7 DEF FallBack
  <2>2. x = <<Wired(world, op[c], Wanted(world, plan[c]), "GET")>> /\ op[c] \in DOMAIN Targets(Chosen(world)[1], "GET")
    BY <1>4, SentIsWired, ConfiguredIsWanted, SubscribeTarget DEF T
  <2> HIDE DEF x
  <2>3. /\ phase' \in [Calls -> {"idle", "sent", "runs", "answered", "over"}] /\ phase'[c] = "sent"
        /\ \A d \in Calls \ {c} : phase'[d] = phase[d]
    BY <1>1, <2>1, ChangedIn DEF Types
  <2>4. wire' = [d \in Calls |-> wire'[d]] /\ wire'[c] = x /\ \A d \in Calls \ {c} : wire'[d] = wire[d]
    BY <1>1, <2>1, Changed DEF Types
  <2>5. frames' = [d \in Calls |-> frames'[d]] /\ frames'[c] = <<>> /\ \A d \in Calls \ {c} : frames'[d] = frames[d]
    BY <1>1, <2>1, Changed DEF Types
  <2>6. Types'
    BY <1>1, <1>5, <2>1, <2>3, <2>4, <2>5 DEF Types
  <2>7. \A d \in Calls \ {c} : At(d)' = At(d)
    BY <1>5, <2>1, <2>3, <2>4, <2>5 DEF At
  <2>8. AskOK(world, plan[c], "sent", op[c], x, <<>>, refused[c])
    <3>1. AskOK(world, plan[c], phase[c], op[c], wire[c], heard[c], refused[c])
      BY DEF IInv, CallOK
    <3> QED BY <1>1, <1>3, <1>4, <2>2, <3>1 DEF AskOK
  <2>9. AskOK(world, plan[c], phase'[c], op'[c], wire'[c], heard'[c], refused'[c])
    BY <1>3, <1>5, <2>3, <2>4, <2>8
  <2>10. outcome[c] = "none"
    BY <1>1 DEF FlowOK
  <2>11. FlowOK(T, phase'[c], op'[c], heard'[c], yielded'[c], raised'[c], frames'[c], got'[c], outcome'[c], broke'[c])
    BY <1>3, <1>5, <2>1, <2>3, <2>5, <2>10, FlowEmpty
  <2> QED BY <1>4, <1>5, <1>6, <2>1, <2>6, <2>7, <2>9, <2>11, StepKeeps
<1>8. CASE override # "none"
  <2>1. override' = (IF auto THEN "POST" ELSE override) /\ auto' = FALSE /\ Close(c, "A2AClientError") /\ wire' = wire
    BY <1>8 DEF FallBack
  <2>2. override' \in {"none", "GET", "POST"} /\ auto' \in BOOLEAN
    BY <1>1, <2>1 DEF ClientOK
  <2>3. got' = [d \in Calls |-> got'[d]] /\ got' = got /\ broke' \in [Calls -> BOOLEAN] /\ broke' = broke
    BY <1>1, <1>5 DEF Types
  <2>4. FlowOK(T, "over", op[c], heard[c], yielded[c], raised[c], <<>>, got'[c], "A2AClientError", broke'[c])
    BY <1>1, <1>3, <2>3, InteropAssumption DEF FlowOK
  <2> QED BY <1>1, <1>4, <1>5, <1>6, <2>1, <2>2, <2>3, <2>4, ClosedKeeps
<1> QED BY <1>7, <1>8

-----------------------------------------------------------------------------
(* The theorems                                                            *)

\* The calls start with nothing said.
LEMMA InitIInv == Init => IInv
<1> SUFFICES ASSUME Init PROVE IInv
  OBVIOUS
<1>1. Static
  <2>1. PICK s \in Scenarios : world = s.world /\ plan = s.plan
    BY DEF Init
  <2>2. s = [world |-> s.world, plan |-> s.plan]
    BY InteropAssumption
  <2> QED BY <2>1, <2>2 DEF Static
<1>2. Parsed(world).streaming \in BOOLEAN /\ Parsed(world).extended \in BOOLEAN
  BY <1>1, TheWorld
<1>3. ClientOK
  BY <1>2 DEF Init, ClientOK
<1>4. Types
  <2>1. /\ phase \in [Calls -> {"idle", "sent", "runs", "answered", "over"}]
        /\ op \in [Calls -> Unary \cup Streams \cup {"none"}]
        /\ raised \in [Calls -> Failures \cup {"none", "returned"}]
        /\ outcome \in [Calls -> {"none", "ok", "NotImplementedError", "A2AClientError"} \cup DOMAIN JsonRpcCode]
    BY DEF Init
  <2>2. refused \in [Calls -> BOOLEAN] /\ broke \in [Calls -> BOOLEAN]
    BY DEF Init
  <2>3. /\ wire = [c \in Calls |-> wire[c]] /\ heard = [c \in Calls |-> heard[c]]
        /\ yielded = [c \in Calls |-> yielded[c]] /\ frames = [c \in Calls |-> frames[c]]
        /\ got = [c \in Calls |-> got[c]]
    BY DEF Init
  <2> QED BY <2>1, <2>2, <2>3 DEF Types
<1>5. ASSUME NEW c \in Calls PROVE CallOK(c)
  <2>1. /\ phase[c] = IF plan[c] = Absent THEN "over" ELSE "idle"
        /\ op[c] = "none" /\ heard[c] = <<>> /\ yielded[c] = <<>> /\ raised[c] = "none" /\ frames[c] = <<>>
        /\ got[c] = <<>> /\ outcome[c] = "none" /\ refused[c] = FALSE
    BY DEF Init
  <2>2. AskOK(world, plan[c], phase[c], op[c], wire[c], heard[c], refused[c])
    BY <2>1 DEF AskOK
  <2>3. FlowOK(T, phase[c], op[c], heard[c], yielded[c], raised[c], frames[c], got[c], outcome[c], broke[c])
    BY <2>1, FlowHome, FlowEmpty
  <2> QED BY <2>2, <2>3 DEF CallOK
<1> QED BY <1>1, <1>3, <1>4, <1>5 DEF IInv

\* Every step keeps all of it.
LEMMA NextIInv == IInv /\ [Next]_vars => IInv'
<1> SUFFICES ASSUME IInv, [Next]_vars PROVE IInv'
  OBVIOUS
<1>1. CASE UNCHANGED vars
  <2>1. UNCHANGED <<world, plan, card, override, auto, phase, op, wire, heard, yielded, raised, frames, got,
                    outcome, refused, broke>>
    BY <1>1 DEF vars, client, server, result
  <2>2. Static' /\ Types'
    BY <2>1 DEF IInv, Static, Types
  <2>3. ClientOK'
    BY <2>1 DEF IInv, ClientOK, T
  <2>4. \A c \in Calls : CallOK(c)'
    BY <2>1, OthersKept DEF IInv, At
  <2> QED BY <2>2, <2>3, <2>4 DEF IInv
<1>2. CASE Next
  BY <1>2, EndsAtHomeKeeps, SendKeeps, RefuseKeeps, HandleKeeps, YieldKeeps, FinishKeeps, RaiseKeeps,
     TakeEventKeeps, TakeEndKeeps, TakeErrorKeeps, FallBackKeeps, BreakKeeps DEF Next
<1> QED BY <1>1, <1>2

\* The invariant that the theorems below rest on: each call is where its request, its frames and
\* its outcome say it is.
THEOREM InteropInvariant == Spec => []IInv
BY InitIInv, NextIInv, PTL DEF Spec

\* Every variable keeps its type: in particular whatever a server answers, an error is one of the
\* classes that errors.py and client/errors.py name (the transports' error handling).
THEOREM InteropTypeCorrect == Spec => []TypeOK
<1>1. IInv => TypeOK
  <2> SUFFICES ASSUME IInv PROVE TypeOK
    OBVIOUS
  <2>1. \A c \in Calls : /\ Len(yielded[c]) <= MaxEvents /\ Len(got[c]) <= MaxEvents
                         /\ got[c] \in Seq(Event(Message \cup {BlankMessage}))
    <3> TAKE c \in Calls
    <3>1. SaidOK(T, yielded[c], got[c])
      BY DEF IInv, CallOK, FlowOK
    <3>2. /\ yielded[c] \in Seq(Whole) /\ got[c] \in Seq(Event(Message \cup {BlankMessage}))
          /\ Len(yielded[c]) <= MaxEvents /\ Len(got[c]) <= Len(yielded[c]) /\ MaxEvents \in Nat
      BY <3>1, InteropAssumption DEF SaidOK
    <3> QED BY <3>2
  <2> QED BY <2>1 DEF IInv, Static, Types, ClientOK, TypeOK
<1> QED BY <1>1, InteropInvariant, PTL

\* Whatever the card offers, the transport that the client takes from it reaches a handler, which is
\* asked what the caller wanted, up to what 0.3 cannot say; only a subscription to an old REST server
\* may be refused (client_factory.py, the transports, the server's routes, conversions.py).
THEOREM CallsArriveAlways == Spec => []CallsArrive
<1>1. ASSUME IInv, NEW c \in Calls
      PROVE  /\ refused[c] => T.legacy /\ T.binding = "HTTP+JSON" /\ op[c] = "SubscribeToTask"
             /\ heard[c] # <<>> => Keeps(c)
  <2>1. AskOK(world, plan[c], phase[c], op[c], wire[c], heard[c], refused[c])
    BY <1>1 DEF IInv, CallOK
  <2>2. refused[c] => T.legacy /\ T.binding = "HTTP+JSON" /\ op[c] = "SubscribeToTask"
    BY <2>1 DEF AskOK, VerbMatters, T
  <2>3. ASSUME heard[c] # <<>> PROVE Keeps(c)
    <3> DEFINE a == plan[c]
               o == op[c]
               d == Wanted(world, a)
               g == Read(T, o, Written(T, o, d))
    <3>1. o # "none" /\ Fits(o, a) /\ heard[c] = Heard(world, a, o)
      BY <2>1, <2>3 DEF AskOK
    <3>2. heard[c][1].op = o /\ heard[c][1].data = g
      BY <3>1 DEF Heard, T
    <3>3. /\ IsWorld(world) /\ T \in Transports /\ a \in Request /\ IsProper(a) /\ o \in Ops
          /\ IF a.op = "Send" THEN o \in Sends ELSE o = a.op
      BY <1>1, <3>1, TheWorld DEF IInv, Fits
    <3> HIDE DEF d
    <3>4. /\ d \in Data /\ Suits(o, d)
          /\ d.message = a.data.message /\ d.history = a.data.history /\ d.fields = a.data.fields
          /\ d.immediate = (a.data.immediate \/ (o \in Sends /\ world.polling))
          /\ d.push = (IF o \in Sends /\ a.data.push = Absent THEN world.push ELSE a.data.push)
      BY <3>1, <3>3, WantedSuits DEF d
    <3>5. Kept(T, o, d, g)
      BY <3>3, <3>4, RequestTrip
    <3>6. ASSUME o \in Sends
          PROVE  /\ g.message.part = d.message.part
                 /\ \/ g.message.role = d.message.role
                    \/ T.legacy /\ d.message.role = "unspecified"
                 /\ d.message.has \ g.message.has \subseteq (IF ViaProto(T) THEN {"references"} ELSE {})
      <4> DEFINE m == d.message
                 n == g.message
      <4>1. m \in Message /\ m # Absent /\ n = SaidMessage(T, m)
        BY <3>4, <3>5, <3>6 DEF Data, Suits, Kept
      <4> HIDE DEF m, n
      <4>2. CASE ~T.legacy
        <5>1. n = m
          BY <4>1, <4>2 DEF SaidMessage
        <5> QED BY <5>1 DEF m, n
      <4>3. CASE T.legacy
        <5>1. n = [role |-> IF m.role = "unspecified" THEN "agent" ELSE m.role, part |-> m.part,
                   has |-> IF ViaProto(T) THEN m.has \ {"references"} ELSE m.has]
          BY <3>3, <4>1, <4>3, MessageSaid
        <5>2. /\ n.part = m.part /\ n.role = IF m.role = "unspecified" THEN "agent" ELSE m.role
              /\ n.has = IF ViaProto(T) THEN m.has \ {"references"} ELSE m.has
          BY <5>1
        <5> QED BY <4>3, <5>2 DEF m, n
      <4> QED BY <4>2, <4>3
    <3> HIDE DEF g, o, a
    <3>7. /\ g.immediate = d.immediate /\ g.push = d.push /\ g.fields \subseteq d.fields
          /\ d.fields \ g.fields \subseteq (IF T.legacy THEN {"tenant"} ELSE {})
               \cup (IF o = "CancelTask" /\ (T.binding = "HTTP+JSON" \/ ViaProto(T)) THEN {"metadata"} ELSE {})
          /\ g.history = d.history \/ (ViaProto(T) /\ {g.history, d.history} = {"unset", "zero"})
      BY <3>5 DEF Kept
    <3> QED BY <3>2, <3>3, <3>4, <3>6, <3>7 DEF Keeps, o, a
  <2> QED BY <2>2, <2>3
<1>2. IInv => CallsArrive
  BY <1>1 DEF CallsArrive
<1> QED BY <1>2, InteropInvariant, PTL

\* Over 1.0 and over gRPC 0.3 a class the handler raises reaches the caller as itself, behind all
\* that was yielded before it (the servers' error handlers and the transports').
THEOREM ErrorsKeepTheirClassAlways == Spec => []ErrorsKeepTheirClass
<1>1. IInv => ErrorsKeepTheirClass
  <2> SUFFICES ASSUME IInv, NEW c \in Calls,
                      raised[c] \in DOMAIN JsonRpcCode \ {"JSONParseError"}, phase[c] = "over", ~broke[c],
                      ~T.legacy \/ T.binding = "GRPC"
               PROVE  \/ outcome[c] = raised[c] /\ Len(got[c]) = Len(yielded[c])
                      \/ got[c] # <<>> /\ got[c][Len(got[c])].kind = "message"
    BY DEF ErrorsKeepTheirClass
  <2>1. FlowOK(T, "over", op[c], heard[c], yielded[c], raised[c], frames[c], got[c], outcome[c], broke[c])
    BY DEF IInv, CallOK
  <2>2. raised[c] \in Mapped /\ raised[c] # "none" /\ raised[c] # "returned"
    BY DEF Mapped, JsonRpcCode
  <2>3. raised[c] \in Failures
    BY <2>2 DEF IInv, Types
  <2>4. T \in Transports
    BY TheWorld DEF IInv
  <2>5. ErrorClass(T, ErrorFrame(T, op[c], raised[c])) = raised[c]
    BY <2>2, <2>4, ErrorKept
  <2> QED BY <2>1, <2>3, <2>5 DEF FlowOK, Complete, ByMessage
<1> QED BY <1>1, InteropInvariant, PTL

\* The caller has the handler's events as they were yielded, in order and without a gap, up to what
\* 0.3 cannot say, and is told that they are complete only when they are or a Message was the last
\* (the event converters and the transports' stream readers).
THEOREM StreamIsFaithfulAlways == Spec => []StreamIsFaithful
<1>1. IInv => StreamIsFaithful
  <2> SUFFICES ASSUME IInv, NEW c \in Calls
               PROVE  /\ Len(got[c]) <= Len(yielded[c])
                      /\ \A n \in DOMAIN got[c] : SameEvent(yielded[c][n], got[c][n])
                      /\ (outcome[c] = "ok" /\ op[c] # "none") =>
                            \/ raised[c] = "returned" /\ Len(got[c]) = Len(yielded[c])
                            \/ got[c] # <<>> /\ got[c][Len(got[c])].kind = "message"
    BY DEF StreamIsFaithful
  <2>1. FlowOK(T, phase[c], op[c], heard[c], yielded[c], raised[c], frames[c], got[c], outcome[c], broke[c])
    BY DEF IInv, CallOK
  <2>2. SaidOK(T, yielded[c], got[c])
    BY <2>1 DEF FlowOK
  <2>3. T \in Transports
    BY TheWorld DEF IInv
  <2>4. ASSUME NEW n \in DOMAIN got[c] PROVE SameEvent(yielded[c][n], got[c][n])
    <3>1. /\ yielded[c] \in Seq(Whole) /\ got[c] \in Seq(Event(Message \cup {BlankMessage}))
          /\ Len(got[c]) <= Len(yielded[c])
          /\ \A k \in 1..Len(got[c]) : got[c][k] = Understood(T, Reply(T, yielded[c][k]))
      BY <2>2 DEF SaidOK
    <3>2. n \in 1..Len(got[c]) /\ n \in 1..Len(yielded[c])
      BY <3>1
    <3>3. yielded[c][n] \in Whole
      BY <3>1, <3>2
    <3> QED BY <2>3, <3>1, <3>2, <3>3, EventSame
  <2>5. outcome[c] = "ok" => phase[c] = "over"
    BY <2>1 DEF FlowOK, IInv, Types
  <2>6. Len(got[c]) <= Len(yielded[c])
    BY <2>2 DEF SaidOK
  <2> QED BY <2>1, <2>4, <2>5, <2>6 DEF FlowOK, Complete, ByMessage
<1> QED BY <1>1, InteropInvariant, PTL

\* A subscription that is under way to a server of one verb, after a fallback, has that verb.
LEMMA RunsWithGet ==
    ASSUME IInv, world.verbs = {"GET"}, override = "GET", NEW c \in Calls, heard[c] # <<>>,
           op[c] = "SubscribeToTask", phase[c] = "runs"
    PROVE  wire[c][1].target[1] = "GET"
<1>1. AskOK(world, plan[c], phase[c], op[c], wire[c], heard[c], refused[c])
  BY DEF IInv, CallOK
<1>2. T.legacy /\ T.binding = "HTTP+JSON" /\ VerbMatters(T, op[c])
  BY DEF IInv, ClientOK, VerbMatters
<1>3. PICK v : wire[c] = <<Wired(world, op[c], Wanted(world, plan[c]), v)>> /\ v \in world.verbs
  BY <1>1, <1>2 DEF AskOK, T
<1>4. wire[c][1].target = Targets(T, "GET")["SubscribeToTask"]
  BY <1>3 DEF Wired, T
<1>5. wire[c][1].target = <<"GET", Subscribe03>>
  BY <1>2, <1>4, SubscribeTarget
<1> QED BY <1>5

\* A subscription is refused its verb only when it is not the one the server has.
LEMMA NoFallBack ==
    ASSUME IInv, Settled, NEW c \in Calls
    PROVE  ~FallBack(c)
<1> SUFFICES ASSUME FallBack(c) PROVE FALSE
  OBVIOUS
<1>1. /\ phase[c] \in {"runs", "answered"} /\ frames[c] # <<>> /\ op[c] \in Ops /\ T \in Transports
      /\ heard[c] = <<>> => phase[c] = "answered"
      /\ FlowOK(T, phase[c], op[c], heard[c], yielded[c], raised[c], frames[c], got[c], outcome[c], broke[c])
  BY Reading DEF FallBack
<1>2. VerbMatters(T, op[c]) /\ "status" \in DOMAIN Head(frames[c])
  BY DEF FallBack, WrongVerb, VerbMatters, Frame
<1>3. heard[c] = <<>> /\ phase[c] = "answered"
  BY <1>1, <1>2, FlowRefused
<1>4. AskOK(world, plan[c], phase[c], op[c], wire[c], heard[c], refused[c])
  BY DEF IInv, CallOK
<1>5. T.legacy /\ T.binding = "HTTP+JSON" /\ op[c] = "SubscribeToTask" /\ op[c] # "none"
  BY <1>2 DEF VerbMatters
<1>6. PICK v : wire[c] = <<Wired(world, op[c], Wanted(world, plan[c]), v)>> /\ v \notin world.verbs
  BY <1>3, <1>4, <1>5 DEF AskOK
<1>7. wire[c][1].target = <<v, Subscribe03>>
  <2>1. wire[c][1].target = Targets(T, v)["SubscribeToTask"]
    BY <1>5, <1>6 DEF Wired, T
  <2> QED BY <1>5, <2>1, SubscribeTarget
<1>8. wire[c][1].target[1] = v
  BY <1>7
<1>9. wire[c][1].target[1] = "GET" /\ world.verbs = {"GET"}
  BY <1>3, <1>5 DEF Settled
<1> QED BY <1>6, <1>8, <1>9

\* What a step has to show of its own call.
LEMMA SettledStep ==
    ASSUME IInv, Settled, NEW c \in Calls, UNCHANGED <<world, override>>,
           \A d \in Calls \ {c} : phase'[d] = phase[d] /\ op'[d] = op[d] /\ wire'[d] = wire[d],
           op'[c] = "SubscribeToTask" /\ phase'[c] \in {"sent", "answered"} => wire'[c][1].target[1] = "GET"
    PROVE  Settled'
BY DEF Settled

\* On a server that has GET alone, a 0.3 REST transport that has fallen back to it stays with it
\* (rest_transport.py:286-287), once no subscription is under way with POST.
THEOREM PreferenceIsKept == Spec => PreferenceKept
<1>1. ASSUME IInv, Settled, Next PROVE Settled'
  <2>0. PICK c \in Calls :
           \/ EndsAtHome(c) \/ Send(c) \/ Refuse(c) \/ Handle(c) \/ Yield(c) \/ Finish(c) \/ Raise(c)
           \/ TakeEvent(c) \/ TakeEnd(c) \/ TakeError(c) \/ FallBack(c) \/ Break(c)
    BY <1>1 DEF Next
  <2>t. Types
    BY <1>1 DEF IInv
  <2>1. CASE EndsAtHome(c) \/ TakeEnd(c) \/ TakeError(c) \/ Break(c)
    <3>1. PICK x : phase' = [phase EXCEPT ![c] = x] /\ x = "over"
      BY <2>1 DEF EndsAtHome, TakeEnd, TakeError, Break, Close
    <3>2. UNCHANGED <<world, override, op, wire>>
      BY <2>1 DEF EndsAtHome, TakeEnd, TakeError, Break, client
    <3>3. phase'[c] = "over" /\ \A d \in Calls \ {c} : phase'[d] = phase[d]
      BY <2>t, <3>1, ChangedIn DEF Types
    <3> QED BY <1>1, <3>2, <3>3, SettledStep
  <2>2. CASE Send(c)
    <3>1. /\ phase' = [phase EXCEPT ![c] = "sent"] /\ op' = [op EXCEPT ![c] = Operation(c)]
          /\ wire' = [wire EXCEPT ![c] = <<Sent(Operation(c), Configured(c), Verb)>>]
          /\ UNCHANGED <<world, override>>
      BY <2>2 DEF Send, client
    <3>2. /\ \A d \in Calls \ {c} : phase'[d] = phase[d] /\ op'[d] = op[d] /\ wire'[d] = wire[d]
          /\ op'[c] = Operation(c) /\ wire'[c] = <<Sent(Operation(c), Configured(c), Verb)>>
      BY <2>t, <3>1 DEF Types
    <3>3. Verb = "GET" /\ T.legacy /\ T.binding = "HTTP+JSON"
      BY <1>1 DEF Settled, Verb, IInv, ClientOK
    <3>4. ASSUME Operation(c) = "SubscribeToTask" PROVE wire'[c][1].target[1] = "GET"
      <4>1. wire'[c][1].target = <<"GET", Subscribe03>>
        <5>1. wire'[c][1].target = Targets(T, "GET")["SubscribeToTask"]
          BY <3>2, <3>3, <3>4 DEF Sent
        <5> QED BY <3>3, <5>1, SubscribeTarget
      <4> QED BY <4>1
    <3> QED BY <1>1, <3>1, <3>2, <3>4, SettledStep
  <2>3. CASE Refuse(c)
    <3>1. /\ phase[c] = "sent" /\ phase' = [phase EXCEPT ![c] = "answered"]
          /\ UNCHANGED <<world, override, op, wire>>
      BY <2>3 DEF Refuse, client
    <3>2. op[c] = "SubscribeToTask" => wire[c][1].target[1] = "GET"
      BY <1>1, <3>1 DEF Settled
    <3>3. \A d \in Calls \ {c} : phase'[d] = phase[d]
      BY <2>t, <3>1, ChangedIn DEF Types
    <3> QED BY <1>1, <3>1, <3>2, <3>3, SettledStep
  <2>4. CASE Handle(c)
    <3>1. phase' = [phase EXCEPT ![c] = "runs"] /\ UNCHANGED <<world, override, op, wire>>
      BY <2>4 DEF Handle, client
    <3>2. phase'[c] = "runs" /\ \A d \in Calls \ {c} : phase'[d] = phase[d]
      BY <2>t, <3>1, ChangedIn DEF Types
    <3> QED BY <1>1, <3>1, <3>2, SettledStep
  <2>5. CASE Yield(c) \/ Finish(c) \/ Raise(c)
    <3>1. /\ phase[c] = "runs" /\ (phase' = phase \/ phase' = [phase EXCEPT ![c] = "answered"])
          /\ UNCHANGED <<world, override, op, wire>>
      BY <2>5 DEF Yield, Finish, Raise, client
    <3>2. heard[c] # <<>>
      BY <1>1, <3>1, Running
    <3>3. op[c] = "SubscribeToTask" => wire[c][1].target[1] = "GET"
      BY <1>1, <3>1, <3>2, RunsWithGet DEF Settled
    <3>4. \A d \in Calls \ {c} : phase'[d] = phase[d]
      BY <2>t, <3>1, ChangedIn DEF Types
    <3> QED BY <1>1, <3>1, <3>3, <3>4, SettledStep
  <2>6. CASE TakeEvent(c)
    <3>1. /\ phase[c] \in {"runs", "answered"} /\ (phase' = phase \/ phase' = [phase EXCEPT ![c] = "over"])
          /\ UNCHANGED <<world, override, op, wire>>
      BY <2>6 DEF TakeEvent, Waiting, Close
    <3>2. phase'[c] \in {phase[c], "over"} /\ \A d \in Calls \ {c} : phase'[d] = phase[d]
      BY <2>t, <3>1, ChangedIn DEF Types
    <3>3. op[c] = "SubscribeToTask" /\ phase[c] = "answered" => wire[c][1].target[1] = "GET"
      BY <1>1 DEF Settled
    <3> QED BY <1>1, <3>1, <3>2, <3>3, SettledStep
  <2>7. CASE FallBack(c)
    BY <1>1, <2>7, NoFallBack
  <2> QED BY <2>0, <2>1, <2>2, <2>3, <2>4, <2>5, <2>6, <2>7
<1>2. ASSUME Settled, UNCHANGED vars PROVE Settled'
  BY <1>2 DEF Settled, vars, client
<1>3. IInv /\ [Next]_vars => [Settled => Settled']_vars
  BY <1>1, <1>2
<1> QED BY <1>3, InteropInvariant, PTL DEF Spec, PreferenceKept
=============================================================================
