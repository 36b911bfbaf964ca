---------------------------- MODULE CellApiProofs ----------------------------
(***************************************************************************)
(* Proofs about the rep's HTTP interface (CellApi), for any work, any      *)
(* configurations and any number of calls and faults.  The invariant says  *)
(* of every call what its handler has decided by the point it has reached; *)
(* a call is touched only by the handler that serves it.  A second one     *)
(* says of every container what it was placed for and who has listed it.   *)
(***************************************************************************)
EXTENDS CellApi, ConversionsProofs

-----------------------------------------------------------------------------
(* Sequences of calls.                                                     *)

(* What Append does to a sequence. *)
LEMMA AppendCall ==
    ASSUME NEW S, NEW s \in Seq(S), NEW e
    PROVE  /\ Append(s, e) \in Seq(S \cup {e})
           /\ \A i \in DOMAIN Append(s, e) :
                 Append(s, e)[i] = e \/ (i \in DOMAIN s /\ Append(s, e)[i] = s[i])
           /\ \A i \in DOMAIN s : i \in DOMAIN Append(s, e) /\ Append(s, e)[i] = s[i]
<1> DEFINE T == S \cup {e}
<1>1. s \in Seq(T) /\ e \in T
    OBVIOUS
<1>2. Append(s, e) \in Seq(T) /\ Len(Append(s, e)) = Len(s) + 1
    BY <1>1
<1>3. DOMAIN s = 1..Len(s) /\ DOMAIN Append(s, e) = 1..(Len(s) + 1) /\ Len(s) \in Nat
    BY <1>1, <1>2
<1>4. \A i \in 1..Len(s) : Append(s, e)[i] = s[i]
    BY <1>1
<1>5. Append(s, e)[Len(s) + 1] = e
    BY <1>1
<1> QED
    BY <1>2, <1>3, <1>4, <1>5

(* What replacing one element does to a sequence. *)
LEMMA UpdateCall ==
    ASSUME NEW S, NEW s \in Seq(S), NEW n \in DOMAIN s, NEW e
    PROVE  /\ [s EXCEPT ![n] = e] \in Seq(S \cup {e})
           /\ DOMAIN [s EXCEPT ![n] = e] = DOMAIN s
           /\ [s EXCEPT ![n] = e][n] = e
           /\ \A i \in DOMAIN s : i # n => [s EXCEPT ![n] = e][i] = s[i]
<1> DEFINE T == S \cup {e}
           t == [s EXCEPT ![n] = e]
<1>1. s \in Seq(T) /\ e \in T
    OBVIOUS
<1>2. Len(s) \in Nat /\ DOMAIN s = 1..Len(s) /\ s \in [1..Len(s) -> T]
    BY <1>1
<1>3. t \in [1..Len(s) -> T]
    BY <1>1, <1>2
<1>4. t \in Seq(T)
    BY <1>2, <1>3
<1> QED
    BY <1>2, <1>3, <1>4

-----------------------------------------------------------------------------
(* The invariant.                                                          *)
IsCall(c) ==
    c = [route |-> c.route, arg |-> c.arg, at |-> c.at, status |-> c.status,
         body |-> c.body, outcome |-> c.outcome, did |-> c.did, before |-> c.before]

(* Why a call may have been refused. *)
Excused == \/ client.url = Address /\ ~config.legacy
           \/ client.certs = "forgotten"

(* A reply with the status the client wants to see says what was done. *)
TrueReply(c) ==
    c.at = "replied" /\ c.status = Expected[c.route] =>
        /\ c.route \in {"STATE", "StopLRPInstance"} => c.did
        /\ c.route # "RESET"
        /\ c.route = "PERFORM" => c.did = (c.body[1] = {})

(* The types of a call's fields. *)
CallType(c) ==
    /\ c.route \in DOMAIN Expected
    /\ c.at \in {"sent", "refused", "allocating", "listed", "replied"}
    /\ c.at = "replied" <=> c.status # 0
    /\ c.outcome \in {"waiting", "ok", "error"}

(* What a State says of the root file systems the cell has. *)
Providers == MarshalProviders(RootFSProviders(StackMap, SupportedProviders))

TrueProviders(c) ==
    c.route = "STATE" /\ c.at = "replied" /\ c.status # 500 => c.body[2] = Providers

(* The containers have been listed for a State. *)
Listed(c) == c.route = "STATE" /\ (c.at = "listed" \/ (c.at = "replied" /\ c.status # 500))

(* What has been decided about a call at the point it has reached. *)
Decided(c) ==
    /\ c.at = "refused" => Excused
    /\ c.at # "replied" => ~c.did
    /\ TrueReply(c)
    /\ c.outcome = "ok" => c.at = "replied" /\ c.status = Expected[c.route]
    /\ c.route = "Evacuate" /\ c.at = "replied" => evacuating
    /\ c.route = "PERFORM" /\ c.before.evacuated =>
          evacuating /\ c.at # "allocating" /\ ~c.did

CallInv(c) ==
    /\ IsCall(c)
    /\ CallType(c)
    /\ TrueProviders(c)
    /\ Decided(c)

(* A client is for the address or for the URL of the cell, with the        *)
(* certificates this takes unless they were forgotten.                     *)
ClientInv ==
    /\ client.url \in {NoURL, Address, RepURL}
    /\ client.url.scheme = "https" => client.certs \in {"present", "forgotten"}
    /\ client.url = NoURL => calls = <<>>

Inv ==
    /\ config \in RepConfig
    /\ evacuating \in BOOLEAN
    /\ ClientInv
    /\ \E S : calls \in Seq(S)
    /\ \A n \in DOMAIN calls : CallInv(calls[n])
    /\ \A n \in cancelling : n \in DOMAIN calls /\ calls[n].route = "CancelTask"
                              /\ calls[n].at = "replied"

(* The invariant implies three of the properties. *)
LEMMA InvImplies == Inv => ClientReachesCell /\ AnswersAreTrue /\ EvacuatingTakesNoWork
    BY DEF Inv, CallInv, CallType, Decided, TrueReply, Excused, ClientReachesCell, AnswersAreTrue,
           EvacuatingTakesNoWork

(* It holds initially. *)
LEMMA InitInv == Init => Inv
<1> SUFFICES ASSUME Init PROVE Inv
    OBVIOUS
<1>1. calls \in Seq({}) /\ DOMAIN calls = {}
    BY DEF Init
<1> QED
    BY <1>1, Zenon DEF Init, Inv, ClientInv, NoURL, URL

-----------------------------------------------------------------------------
(* The invariant of the containers.                                        *)

(* The run request for what a container was placed for. *)
RunAs(c) ==
    IF c.item \in Task THEN NewRunRequestFromTask(Work[c.item])
    ELSE NewRunRequestFromDesiredLRP(Work[c.item],
            [process |-> Work[c.item].process, index |-> Work[c.item].index,
             domain |-> Work[c.item].domain], c.guid)

IsContainer(c) ==
    c = [guid |-> c.guid, item |-> c.item, path |-> c.path, state |-> c.state,
         run |-> c.run, call |-> c.call, tags |-> c.tags]

(* A container has the guid, the tags, the root file system and, once it   *)
(* runs, the run request of its item.                                      *)
ContainerInv(c) ==
    /\ IsContainer(c)
    /\ c.item \in LRP \cup Task
    /\ c.state \in {"reserved", "running", "completed"}
    /\ PathForRootFS(Work[c.item].rootfs, StackMap) = <<c.path>>
    /\ c.item \notin Task => c.tags = LRPTags(Work[c.item], c.guid)
    /\ c.item \in Task =>
          /\ c.guid = Work[c.item].guid
          /\ Tag(c.tags, "lifecycle") = <<"task">>
          /\ Tag(c.tags, "domain") = <<Work[c.item].domain>>
          /\ c.run # <<>> => Tag(c.tags, "resultFile") = Work[c.item].resultFile
    /\ c.run # <<>> => c.run = RunAs(c)

(* What a listing has to say of a container. *)
Names(listing, c) ==
    IF c.item \in Task
    THEN [guid |-> Work[c.item].guid, domain |-> <<Work[c.item].domain>>] \in listing.tasks
    ELSE [process |-> Work[c.item].process, index |-> Work[c.item].index,
          domain |-> Work[c.item].domain] \in listing.lrps

(* A container is placed by a Perform that has been answered, and is named *)
(* by the listings of the States that were sent after it.                  *)
CellInv ==
    /\ UnmarshalStackMap(config.stacks) # Error
    /\ faults \in 0..MaxFaults
    /\ \A c \in containers :
          ContainerInv(c) /\ c.call \in DOMAIN calls /\ calls[c.call].at = "replied"
    /\ \A n \in DOMAIN calls :
          /\ calls[n].route = "PERFORM" => calls[n].arg \in LRP \cup Task
          /\ \A m \in calls[n].before.placed : m \in DOMAIN calls /\ calls[m].at = "replied"
          /\ Listed(calls[n]) =>
                \A c \in containers :
                    c.call \in calls[n].before.placed => Names(calls[n].body[1], c)

-----------------------------------------------------------------------------
(* A step that touches call n only, and keeps its part of the invariant. *)
Touches(n) ==
    /\ calls' = [calls EXCEPT ![n] = calls'[n]]
    /\ CallInv(calls[n])'
    /\ calls'[n].route = calls[n].route /\ calls'[n].arg = calls[n].arg
    /\ calls'[n].before = calls[n].before
    /\ calls[n].at = "replied" => calls'[n].at = "replied"
    /\ Listed(calls'[n]) => \/ Listed(calls[n]) /\ calls'[n].body[1] = calls[n].body[1]
                            \/ StateLists(n)
    /\ \A m \in cancelling' :
          \/ m \in cancelling
          \/ m = n /\ calls[n].route = "CancelTask" /\ calls'[n].at = "replied"
    /\ config' = config /\ client' = client
    /\ evacuating' \in BOOLEAN /\ (evacuating => evacuating')

(* It keeps the whole invariant. *)
LEMMA OneCallStep ==
    ASSUME Inv, NEW n \in DOMAIN calls, Touches(n)
    PROVE  Inv'
<1>1. PICK S : calls \in Seq(S)
    BY DEF Inv
<1>2. /\ calls' \in Seq(S \cup {calls'[n]})
      /\ DOMAIN calls' = DOMAIN calls
      /\ \A i \in DOMAIN calls : i # n => calls'[i] = calls[i]
    BY <1>1, UpdateCall DEF Touches
<1>3. \A i \in DOMAIN calls' : CallInv(calls[i])'
  <2> SUFFICES ASSUME NEW i \in DOMAIN calls, i # n PROVE CallInv(calls[i])'
      BY <1>2 DEF Touches
  <2>1. calls'[i] = calls[i] /\ CallInv(calls[i])
      BY <1>2 DEF Inv
  <2>2. Providers' = Providers /\ Excused' = Excused /\ (evacuating => evacuating')
      BY DEF Touches, Providers, StackMap, Excused
  <2> QED
      BY <2>1, <2>2 DEF CallInv, CallType, TrueProviders, Decided, IsCall, TrueReply
<1>4. ClientInv'
  <2>1. client.url = NoURL => calls' = <<>>
      BY DEF Inv, ClientInv, Touches
  <2> QED
      BY <2>1 DEF Inv, ClientInv, RepURL, Touches
<1>5. \A m \in cancelling' : m \in DOMAIN calls' /\ calls'[m].route = "CancelTask"
                             /\ calls'[m].at = "replied"
    BY <1>2 DEF Inv, Touches
<1> QED
    BY <1>2, <1>3, <1>4, <1>5 DEF Inv, Touches

(* The client's side of a call: giving up, and returning. *)
LEMMA ClientStep ==
    ASSUME Inv, NEW n \in DOMAIN calls, TimesOut(n) \/ Returns(n)
    PROVE  Touches(n)
<1>1. IsCall(calls[n]) /\ CallInv(calls[n]) /\ evacuating \in BOOLEAN
    BY DEF Inv, CallInv
<1>2. PICK o \in {"ok", "error"} :
          /\ calls' = [calls EXCEPT ![n] = [calls[n] EXCEPT !.outcome = o]]
          /\ o = "ok" => calls[n].at = "replied" /\ calls[n].status = Expected[calls[n].route]
    BY DEF TimesOut, Returns
<1>3. /\ config' = config /\ client' = client
      /\ cancelling' = cancelling /\ evacuating' = evacuating
    BY DEF TimesOut, Returns, cellVars
<1>4. calls'[n] = [route |-> calls[n].route, arg |-> calls[n].arg, at |-> calls[n].at,
                   status |-> calls[n].status, body |-> calls[n].body, outcome |-> o,
                   did |-> calls[n].did, before |-> calls[n].before]
    BY <1>1, <1>2 DEF IsCall
<1>5. calls' = [calls EXCEPT ![n] = calls'[n]]
    BY <1>2, <1>4
<1>6. CallInv(calls[n])'
  <2>1. IsCall(calls'[n]) /\ CallType(calls'[n])
      BY <1>1, <1>2, <1>4 DEF CallInv, CallType, IsCall
  <2>2. TrueProviders(calls[n])'
      BY <1>1, <1>3, <1>4 DEF CallInv, TrueProviders, Providers, StackMap
  <2>3. Decided(calls[n])'
      BY <1>1, <1>2, <1>3, <1>4 DEF CallInv, CallType, Decided, IsCall, Excused, TrueReply
  <2> QED
      BY <2>1, <2>2, <2>3 DEF CallInv, CallType, IsCall
<1> QED
    BY <1>1, <1>2, <1>3, <1>4, <1>5, <1>6 DEF Touches, Listed

(* A handler's reply, as a step of its call. *)
Answered(n, status, body, did) ==
    calls'[n] = [route |-> calls[n].route, arg |-> calls[n].arg, at |-> "replied",
                 status |-> status, body |-> body, outcome |-> calls[n].outcome,
                 did |-> did, before |-> calls[n].before]

(* It leaves the other calls alone. *)
LEMMA ReplyAnswers ==
    ASSUME NEW n \in DOMAIN calls, IsCall(calls[n]), \E S : calls \in Seq(S),
           NEW status, NEW body, NEW did, Reply(n, status, body, did)
    PROVE  Answered(n, status, body, did) /\ calls' = [calls EXCEPT ![n] = calls'[n]]
    BY Zenon DEF Reply, IsCall, Answered

(* What a handler may reply to call n, and what else it may do. *)
Answers(n, status, body, did) ==
    /\ Reply(n, status, body, did) /\ did \in BOOLEAN /\ status # 0
    /\ calls[n].route = "STATE" /\ status # 500 =>
          calls[n].at = "listed" /\ body[1] = calls[n].body[1] /\ body[2] = Providers
    /\ calls[n].at \in {"sent", "allocating", "listed"}
    /\ status = Expected[calls[n].route] =>
          /\ calls[n].route \in {"STATE", "StopLRPInstance"} => did
          /\ calls[n].route # "RESET"
          /\ calls[n].route = "PERFORM" => did = (body[1] = {})
    /\ calls[n].route = "PERFORM" /\ calls[n].before.evacuated => ~did
    /\ calls[n].route = "Evacuate" => evacuating'
    /\ \A m \in cancelling' :
          m \in cancelling \/ (m = n /\ calls[n].route = "CancelTask")
    /\ config' = config /\ client' = client
    /\ evacuating' \in BOOLEAN /\ (evacuating => evacuating')

(* Such a reply is a step of its call. *)
LEMMA ReplyStep ==
    ASSUME Inv, NEW n \in DOMAIN calls, NEW status, NEW body, NEW did,
           Answers(n, status, body, did)
    PROVE  Touches(n)
<1>1. IsCall(calls[n]) /\ CallInv(calls[n])
    BY DEF Inv, CallInv
<1>2. Answered(n, status, body, did) /\ calls' = [calls EXCEPT ![n] = calls'[n]]
    BY <1>1, ReplyAnswers, SMTT(30) DEF Answers, Inv
<1>3. CallInv(calls[n])'
  <2>1. IsCall(calls'[n]) /\ CallType(calls'[n])
      BY <1>1, <1>2 DEF Answers, Answered, CallInv, CallType, IsCall
  <2>2. TrueProviders(calls[n])'
      BY <1>2 DEF Answers, Answered, TrueProviders, Providers, StackMap
  <2>3. Decided(calls[n])'
      BY <1>1, <1>2 DEF Answers, Answered, CallInv, CallType, Decided, IsCall, Excused, TrueReply
  <2> QED
      BY <2>1, <2>2, <2>3, SMTT(30) DEF CallInv, CallType, IsCall
<1> QED
    BY <1>1, <1>2, <1>3 DEF Answers, Answered, Touches, Listed, IsCall

(* The statuses the client wants to see, and others. *)
LEMMA ExpectedStatus ==
    /\ Expected["STATE"] = 200 /\ Expected["RESET"] = 200
    /\ Expected["StopLRPInstance"] = 202
    /\ 200 # 0 /\ 202 # 0 /\ 400 # 0 /\ 500 # 0
    BY DEF Expected

(* Perform.  A call that was sent during an evacuation is handed back: the *)
(* evacuation context is never reset.                                      *)
LEMMA PerformStep ==
    ASSUME Inv, NEW n \in DOMAIN calls, Perform(n) \/ Allocate(n)
    PROVE  Touches(n)
<1>1. IsCall(calls[n]) /\ CallInv(calls[n]) /\ evacuating \in BOOLEAN
    BY DEF Inv, CallInv
<1>2. /\ config' = config /\ client' = client
      /\ cancelling' = cancelling /\ evacuating' = evacuating
    BY Zenon DEF Perform, Allocate, cellVars
<1>3. calls[n].route = "PERFORM" /\ calls[n].at \in {"sent", "allocating"}
    BY Zenon DEF Perform, Allocate, Serving
<1>4. CASE Reply(n, 200, <<{calls[n].arg}>>, FALSE)
  <2>1. <<{calls[n].arg}>>[1] # {}
      OBVIOUS
  <2>2. Answers(n, 200, <<{calls[n].arg}>>, FALSE)
      BY <1>1, <1>2, <1>3, <1>4, <2>1, ExpectedStatus, Zenon DEF Answers
  <2> QED
      BY <2>2, ReplyStep, Zenon
<1>5. CASE Serving(n, "PERFORM", "allocating") /\ Reply(n, 200, <<{}>>, TRUE)
  <2>1. ~calls[n].before.evacuated
      BY <1>1, <1>5 DEF CallInv, Decided, Serving
  <2>2. Answers(n, 200, <<{}>>, TRUE)
      BY <1>1, <1>2, <1>3, <1>5, <2>1, ExpectedStatus, Zenon DEF Answers
  <2> QED
      BY <2>2, ReplyStep, Zenon
<1>6. CASE ~evacuating /\ calls' = [calls EXCEPT ![n].at = "allocating"]
  <2>1. calls'[n] = [route |-> calls[n].route, arg |-> calls[n].arg, at |-> "allocating",
                     status |-> calls[n].status, body |-> calls[n].body,
                     outcome |-> calls[n].outcome, did |-> calls[n].did,
                     before |-> calls[n].before]
      BY <1>1, <1>6 DEF IsCall
  <2>2. calls' = [calls EXCEPT ![n] = calls'[n]]
      BY <1>6, <2>1
  <2>3. CallInv(calls[n])'
      BY <1>1, <1>2, <1>3, <1>6, <2>1 DEF CallInv, CallType, TrueProviders, Decided, IsCall, Excused, TrueReply
  <2> QED
      BY <1>1, <1>2, <1>3, <2>1, <2>2, <2>3 DEF Touches, Listed
<1> QED
    BY <1>4, <1>5, <1>6, Zenon DEF Perform, Allocate

(* State. *)
LEMMA StateStep ==
    ASSUME Inv, NEW n \in DOMAIN calls, StateLists(n) \/ StateReplies(n) \/ StateFails(n)
    PROVE  Touches(n)
<1>1. IsCall(calls[n]) /\ CallInv(calls[n]) /\ evacuating \in BOOLEAN
    BY DEF Inv, CallInv
<1>2. /\ config' = config /\ client' = client
      /\ cancelling' = cancelling /\ evacuating' = evacuating
    BY Zenon DEF StateLists, StateReplies, StateFails, cellVars
<1>3. calls[n].route = "STATE" /\ calls[n].at \in {"sent", "listed"}
    BY Zenon DEF StateLists, StateReplies, StateFails, Serving
<1>4. CASE StateLists(n)
  <2>1. PICK body : calls' = [calls EXCEPT ![n] = [calls[n] EXCEPT !.at = "listed", !.body = body]]
      BY <1>4, Zenon DEF StateLists
  <2>2. calls'[n] = [route |-> calls[n].route, arg |-> calls[n].arg, at |-> "listed",
                     status |-> calls[n].status, body |-> body,
                     outcome |-> calls[n].outcome, did |-> calls[n].did,
                     before |-> calls[n].before]
      BY <1>1, <2>1, Zenon DEF IsCall
  <2>3. calls' = [calls EXCEPT ![n] = calls'[n]]
      BY <2>1, <2>2
  <2>4. CallInv(calls[n])'
      BY <1>1, <1>2, <1>3, <2>2 DEF CallInv, CallType, TrueProviders, Decided, IsCall, Excused, TrueReply
  <2> QED
      BY <1>1, <1>2, <1>3, <1>4, <2>2, <2>3, <2>4 DEF Touches, Listed
<1>5. CASE StateReplies(n)
  <2> DEFINE body == <<calls[n].body[1], Providers>>
  <2>1. PICK healthy \in BOOLEAN : Reply(n, IF healthy THEN 200 ELSE 503, body, healthy)
      BY <1>5, Zenon DEF StateReplies, Providers
  <2>2. calls[n].at = "listed" /\ body[1] = calls[n].body[1] /\ body[2] = Providers
      BY <1>5 DEF StateReplies, Serving
  <2> HIDE DEF body
  <2>3. Answers(n, IF healthy THEN 200 ELSE 503, body, healthy)
      BY <1>1, <1>2, <1>3, <2>1, <2>2, ExpectedStatus DEF Answers
  <2> QED
      BY <2>3, ReplyStep
<1>6. CASE StateFails(n)
  <2>1. Reply(n, 500, <<>>, FALSE)
      BY <1>6, Zenon DEF StateFails
  <2>2. Expected[calls[n].route] # 500
      BY <1>3, ExpectedStatus
  <2>3. Answers(n, 500, <<>>, FALSE)
      BY <1>1, <1>2, <1>3, <2>1, <2>2, ExpectedStatus, Zenon DEF Answers
  <2> QED
      BY <2>3, ReplyStep, Zenon
<1> QED
    BY <1>4, <1>5, <1>6

(* The other handlers. *)
LEMMA OtherStep ==
    ASSUME Inv, NEW n \in DOMAIN calls,
           StopLRPInstance(n) \/ CancelTask(n) \/ Evacuate(n) \/ Reset(n)
    PROVE  Touches(n)
<1>1. IsCall(calls[n]) /\ CallInv(calls[n]) /\ evacuating \in BOOLEAN
    BY DEF Inv, CallInv
<1>2. CASE StopLRPInstance(n)
  <2>1. /\ config' = config /\ client' = client
        /\ cancelling' = cancelling /\ evacuating' = evacuating
        /\ calls[n].route = "StopLRPInstance" /\ calls[n].at = "sent"
      BY <1>2 DEF StopLRPInstance, Serving
  <2>2. \/ Reply(n, 400, <<>>, FALSE) \/ Reply(n, 500, <<>>, FALSE)
        \/ Reply(n, 202, <<>>, TRUE)
      BY <1>2, Zenon DEF StopLRPInstance
  <2>3. Expected[calls[n].route] # 400 /\ Expected[calls[n].route] # 500
      BY <2>1, ExpectedStatus
  <2>4. CASE Reply(n, 400, <<>>, FALSE)
    <3>1. Answers(n, 400, <<>>, FALSE)
        BY <1>1, <2>1, <2>3, <2>4, ExpectedStatus, ZenonT(30) DEF Answers
    <3> QED
        BY <3>1, ReplyStep, Zenon
  <2>5. CASE Reply(n, 500, <<>>, FALSE)
    <3>1. Answers(n, 500, <<>>, FALSE)
        BY <1>1, <2>1, <2>3, <2>5, ExpectedStatus, ZenonT(30) DEF Answers
    <3> QED
        BY <3>1, ReplyStep, Zenon
  <2>6. CASE Reply(n, 202, <<>>, TRUE)
    <3>1. Answers(n, 202, <<>>, TRUE)
        BY <1>1, <2>1, <2>6, ExpectedStatus, ZenonT(30) DEF Answers
    <3> QED
        BY <3>1, ReplyStep, Zenon
  <2> QED
      BY <2>2, <2>4, <2>5, <2>6, Zenon
<1>3. CASE CancelTask(n)
  <2>1. Answers(n, 202, <<>>, FALSE)
      BY <1>1, <1>3, ExpectedStatus, ZenonT(30) DEF Answers, CancelTask, Serving
  <2> QED
      BY <2>1, ReplyStep, Zenon
<1>4. CASE Evacuate(n)
  <2>1. Answers(n, 202, <<>>, TRUE)
      BY <1>1, <1>4, ExpectedStatus, ZenonT(30) DEF Answers, Evacuate, Serving
  <2> QED
      BY <2>1, ReplyStep, Zenon
<1>5. CASE Reset(n)
  <2>1. /\ config' = config /\ client' = client
        /\ cancelling' = cancelling /\ evacuating' = evacuating
        /\ calls[n].route = "RESET" /\ calls[n].at = "sent"
        /\ Reply(n, 500, <<>>, FALSE)
      BY <1>5, Zenon DEF Reset, Serving, cellVars
  <2>2. Expected[calls[n].route] # 500
      BY <2>1, ExpectedStatus
  <2>3. Answers(n, 500, <<>>, FALSE)
      BY <1>1, <2>1, <2>2, ExpectedStatus, ZenonT(30) DEF Answers
  <2> QED
      BY <2>3, ReplyStep, Zenon
<1> QED
    BY <1>2, <1>3, <1>4, <1>5

(* The goroutine of a cancellation touches a call that has been answered. *)
LEMMA DeleteStep ==
    ASSUME Inv, NEW n \in DOMAIN calls, DeleteCancelled(n)
    PROVE  Touches(n)
<1>1. /\ IsCall(calls[n]) /\ CallInv(calls[n]) /\ evacuating \in BOOLEAN
      /\ calls[n].route = "CancelTask" /\ calls[n].at = "replied"
    BY DEF Inv, CallInv, DeleteCancelled
<1>2. /\ config' = config /\ client' = client
      /\ cancelling' \subseteq cancelling /\ evacuating' = evacuating
    BY DEF DeleteCancelled
<1>3. PICK body, did : calls' = [calls EXCEPT ![n] = [calls[n] EXCEPT !.body = body, !.did = did]]
  <2>1. CASE calls' = [calls EXCEPT ![n].did = TRUE]
    <3>1. [calls[n] EXCEPT !.did = TRUE] = [calls[n] EXCEPT !.body = calls[n].body, !.did = TRUE]
        BY <1>1, Zenon DEF IsCall
    <3> QED
        BY <2>1, <3>1, Zenon
  <2>2. CASE calls' = [calls EXCEPT ![n].body = <<"undeleted">>]
    <3>1. [calls[n] EXCEPT !.body = <<"undeleted">>]
          = [calls[n] EXCEPT !.body = <<"undeleted">>, !.did = calls[n].did]
        BY <1>1, Zenon DEF IsCall
    <3> QED
        BY <2>2, <3>1, Zenon
  <2> QED
      BY <2>1, <2>2, Zenon DEF DeleteCancelled
<1>4. calls'[n] = [route |-> calls[n].route, arg |-> calls[n].arg, at |-> calls[n].at,
                   status |-> calls[n].status, body |-> body,
                   outcome |-> calls[n].outcome, did |-> did,
                   before |-> calls[n].before]
    BY <1>1, <1>3, Zenon DEF IsCall
<1>5. calls' = [calls EXCEPT ![n] = calls'[n]]
    BY <1>3, <1>4, SMTT(30)
<1>6. CallInv(calls[n])'
    BY <1>1, <1>2, <1>4, SMTT(30)
       DEF CallInv, CallType, TrueProviders, Decided, IsCall, Excused, TrueReply
<1> QED
    BY <1>1, <1>2, <1>4, <1>5, <1>6 DEF Touches, Listed

-----------------------------------------------------------------------------
(* Port, scheme, routes and handlers fit, but for the excuses. *)
LEMMA Unreachable ==
    ASSUME Inv, client.url # NoURL, NEW route \in DOMAIN Expected,
           ~Reaches(route, IF route \in Scripted THEN Address ELSE client.url, client.certs)
    PROVE  Excused
<1>1. config.tls \in BOOLEAN /\ config.legacy \in BOOLEAN
    BY ApiAssumption DEF Inv
<1>2. route \in {"STATE", "PERFORM", "RESET", "StopLRPInstance", "CancelTask", "Evacuate"}
    BY DEF Expected
<1>3. Address.scheme = "http" /\ Address.port = "listen" /\ RepURL.port = "securable"
      /\ RepURL.scheme = (IF config.tls THEN "https" ELSE "http")
    BY DEF Address, RepURL, URL
<1>4. CASE route \in Scripted
    BY <1>1, <1>3, <1>4 DEF Scripted, Reaches, Server, GetRoutes, GetHandlers, NewRoutes,
                            NewHandlers
<1>5. CASE route \notin Scripted /\ client.url = Address
    BY <1>1, <1>2, <1>3, <1>5 DEF Scripted, Reaches, Server, GetRoutes, GetHandlers,
                                  NewRoutes, NewHandlers, Excused
<1>6. CASE route \notin Scripted /\ client.url = RepURL
    BY <1>1, <1>2, <1>3, <1>6, SMTT(30) DEF Scripted, Reaches, Server, GetRoutes, GetHandlers,
                                  NewRoutes, NewHandlers, Excused, Inv, ClientInv
<1> QED
    BY <1>4, <1>5, <1>6 DEF Inv, ClientInv

(* Sending a call. *)
LEMMA SendStep ==
    ASSUME Inv, NEW route \in DOMAIN Expected, NEW arg, Send(route, arg)
    PROVE  Inv'
<1> DEFINE url == IF route \in Scripted THEN Address ELSE client.url
           c   == IF Reaches(route, url, client.certs)
                  THEN NewCall(route, arg, "sent", "waiting")
                  ELSE NewCall(route, arg, "refused", "error")
<1>1. /\ client.url # NoURL /\ calls' = Append(calls, c)
      /\ config' = config /\ client' = client
      /\ cancelling' = cancelling /\ evacuating' = evacuating
    BY DEF Send, cellVars
<1>2. PICK S : calls \in Seq(S)
    BY DEF Inv
<1>3. /\ calls' \in Seq(S \cup {c})
      /\ \A i \in DOMAIN calls' :
            calls'[i] = c \/ (i \in DOMAIN calls /\ calls'[i] = calls[i])
      /\ \A i \in DOMAIN calls : i \in DOMAIN calls' /\ calls'[i] = calls[i]
    BY <1>1, <1>2, AppendCall
<1>4. CallInv(c)
  <2>0. (\E m \in DOMAIN calls : calls[m].route = "Evacuate" /\ calls[m].at = "replied")
        => evacuating
      BY DEF Inv, CallInv, Decided
  <2>1. ~Reaches(route, url, client.certs) => Excused
      BY <1>1, Unreachable
  <2>2. CASE Reaches(route, url, client.certs)
    <3>1. CallType(c)
        BY <2>2 DEF CallType, NewCall
    <3> QED
        BY <2>0, <2>2, <3>1, ZenonT(30) DEF CallInv, TrueProviders, Decided, IsCall, TrueReply, NewCall
  <2>3. CASE ~Reaches(route, url, client.certs)
    <3>1. CallType(c)
        BY <2>3 DEF CallType, NewCall
    <3> QED
        BY <2>0, <2>1, <2>3, <3>1, ZenonT(30) DEF CallInv, TrueProviders, Decided, IsCall, TrueReply, NewCall
  <2> QED
      BY <2>2, <2>3
<1> HIDE DEF c
<1>5. \A i \in DOMAIN calls' : CallInv(calls'[i])
    BY <1>3, <1>4, SMTT(30) DEF Inv
<1>6. \A i \in DOMAIN calls' : CallInv(calls[i])'
  <2>1. Providers' = Providers /\ Excused' = Excused /\ evacuating' = evacuating
      BY <1>1 DEF Providers, StackMap, Excused
  <2> QED
      BY <1>5, <2>1 DEF CallInv, CallType, TrueProviders, Decided, IsCall, TrueReply
<1>7. ClientInv'
    BY <1>1 DEF Inv, ClientInv, RepURL
<1>8. \A m \in cancelling' : m \in DOMAIN calls' /\ calls'[m].route = "CancelTask"
                             /\ calls'[m].at = "replied"
    BY <1>1, <1>3 DEF Inv
<1> QED
    BY <1>1, <1>3, <1>6, <1>7, <1>8 DEF Inv

(* Making a client: no call has been sent before. *)
LEMMA CreateStep ==
    ASSUME Inv, CreateClient
    PROVE  Inv'
<1>1. /\ calls = <<>> /\ calls' = calls /\ config' = config
      /\ cancelling' = cancelling /\ evacuating' = evacuating
    BY DEF CreateClient, Inv, ClientInv, cellVars
<1>2. DOMAIN calls = {}
    BY <1>1
<1>3. PICK tls \in TLSConfig, repURL \in {RepURL, NoURL} :
          /\ PickURL(tls, repURL) # NoURL
          /\ client'.url = PickURL(tls, repURL)
          /\ client'.certs = IF client'.url.scheme # "https" THEN "unused"
                            ELSE IF tls.creds THEN "present"
                            ELSE IF tls.require THEN "forgotten" ELSE "missing"
    BY DEF CreateClient
<1>4. tls.require \in BOOLEAN /\ tls.creds \in BOOLEAN
    BY DEF TLSConfig
<1>5. Address.scheme = "http"
    BY DEF Address, URL
<1>6. client'.url \in {repURL, Address} /\ client'.url # NoURL
    BY <1>3, <1>4, SMTT(30) DEF PickURL
<1>7. client'.url.scheme = "https" => client'.certs \in {"present", "forgotten"}
    BY <1>3, <1>4, <1>5 DEF PickURL
<1>8. ClientInv'
    BY <1>1, <1>6, <1>7 DEF ClientInv, RepURL
<1> QED
    BY <1>1, <1>2, <1>8 DEF Inv

(* What the client, a handler or its goroutine does is a step of its call. *)
LEMMA TouchingStep ==
    ASSUME Inv, NEW n \in DOMAIN calls,
           TimesOut(n) \/ Returns(n) \/ Serve(n) \/ DeleteCancelled(n)
    PROVE  Touches(n)
    BY ClientStep, PerformStep, StateStep, OtherStep, DeleteStep DEF Serve

(* Every step keeps the invariant. *)
LEMMA NextInv == Inv /\ [Next]_vars => Inv'
<1> SUFFICES ASSUME Inv, [Next]_vars PROVE Inv'
    OBVIOUS
<1>1. CASE CreateClient
    BY <1>1, CreateStep
<1>2. CASE \E route, arg : route \in DOMAIN Expected /\ Send(route, arg)
    BY <1>2, SendStep
<1>3. CASE \E n \in DOMAIN calls :
              TimesOut(n) \/ Returns(n) \/ Serve(n) \/ DeleteCancelled(n)
    BY <1>3, TouchingStep, OneCallStep
<1>4. CASE UNCHANGED <<config, client, calls, cancelling, evacuating>>
  <2>1. /\ config' = config /\ client' = client /\ calls' = calls
        /\ cancelling' = cancelling /\ evacuating' = evacuating
      BY <1>4, SMTT(30)
  <2>2. \A n \in DOMAIN calls' : CallInv(calls[n])'
    <3>1. Providers' = Providers /\ Excused' = Excused /\ evacuating' = evacuating
        BY <2>1 DEF Providers, StackMap, Excused
    <3> QED
        BY <2>1, <3>1 DEF Inv, CallInv, CallType, TrueProviders, Decided, IsCall, TrueReply
  <2>3. ClientInv'
      BY <2>1 DEF Inv, ClientInv, RepURL
  <2> QED
      BY <2>1, <2>2, <2>3, SMTT(30) DEF Inv
<1>5. \A c \in containers : ContainerRuns(c) \/ ContainerGoes(c) =>
          UNCHANGED <<config, client, calls, cancelling, evacuating>>
    BY Zenon DEF ContainerRuns, ContainerGoes
<1>6. vars' = vars => UNCHANGED <<config, client, calls, cancelling, evacuating>>
    BY DEF vars
<1>7. {"PERFORM", "StopLRPInstance", "CancelTask", "STATE", "RESET", "Evacuate"}
      \subseteq DOMAIN Expected
    BY DEF Expected
<1> QED
    BY <1>1, <1>2, <1>3, <1>4, <1>5, <1>6, <1>7 DEF Next

LEMMA Invariance == Spec => []Inv
    BY InitInv, NextInv, PTL DEF Spec

-----------------------------------------------------------------------------
(* What a step does to the calls: it answers, lists or adds some, *)
CallsGrow ==
    /\ \A m \in DOMAIN calls :
          /\ m \in DOMAIN calls' /\ calls'[m].route = calls[m].route
          /\ calls'[m].arg = calls[m].arg /\ calls'[m].before = calls[m].before
          /\ calls[m].at = "replied" => calls'[m].at = "replied"
          /\ Listed(calls'[m]) => \/ Listed(calls[m]) /\ calls'[m].body[1] = calls[m].body[1]
                                  \/ \A c \in containers' : Names(calls'[m].body[1], c)
    /\ \A m \in DOMAIN calls' \ DOMAIN calls :
          /\ calls'[m].route = "PERFORM" => calls'[m].arg \in LRP \cup Task
          /\ \A k \in calls'[m].before.placed : \E c \in containers : k = c.call
          /\ ~Listed(calls'[m])

(* and to the containers: a new one comes from a call that was allocating. *)
ContainersMove ==
    \A d \in containers' :
        /\ ContainerInv(d)
        /\ \/ \E c \in containers : d.call = c.call /\ d.item = c.item
           \/ /\ d.call \in DOMAIN calls' /\ calls'[d.call].at = "replied"
              /\ d.call \in DOMAIN calls /\ calls[d.call].at = "allocating"

(* Such a step keeps the invariant: a container that has come after a      *)
(* State was sent is none of those the State has to name.                  *)
LEMMA CellStep ==
    ASSUME CellInv, CallsGrow, ContainersMove, config' = config, faults' \in 0..MaxFaults
    PROVE  CellInv'
<1>1. StackMap' = StackMap /\ UnmarshalStackMap(config'.stacks) # Error
    BY DEF StackMap, CellInv
<1>2. ASSUME NEW d \in containers'
      PROVE  ContainerInv(d)' /\ d.call \in DOMAIN calls' /\ calls'[d.call].at = "replied"
  <2>1. ContainerInv(d)'
      BY <1>1 DEF ContainersMove, ContainerInv, IsContainer, RunAs
  <2>2. CASE \E c \in containers : d.call = c.call
    <3>1. d.call \in DOMAIN calls /\ calls[d.call].at = "replied"
        BY <2>2 DEF CellInv
    <3> QED
        BY <2>1, <3>1 DEF CallsGrow
  <2> QED
      BY <2>1, <2>2, SMTT(30) DEF ContainersMove
<1>3. ASSUME NEW n \in DOMAIN calls'
      PROVE  /\ calls'[n].route = "PERFORM" => calls'[n].arg \in LRP \cup Task
             /\ \A m \in calls'[n].before.placed :
                   m \in DOMAIN calls' /\ calls'[m].at = "replied"
             /\ Listed(calls'[n]) =>
                   \A d \in containers' :
                       d.call \in calls'[n].before.placed => Names(calls'[n].body[1], d)
  <2>1. CASE n \in DOMAIN calls
    <3>1. calls'[n].route = "PERFORM" => calls'[n].arg \in LRP \cup Task
        BY <2>1 DEF CellInv, CallsGrow
    <3>2. \A m \in calls'[n].before.placed : m \in DOMAIN calls /\ calls[m].at = "replied"
        BY <2>1 DEF CellInv, CallsGrow
    <3>3. \A m \in DOMAIN calls :
              m \in DOMAIN calls' /\ (calls[m].at = "replied" => calls'[m].at = "replied")
        BY DEF CallsGrow
    <3>4. ASSUME Listed(calls'[n]), NEW d \in containers', d.call \in calls'[n].before.placed
          PROVE  Names(calls'[n].body[1], d)
      <4>1. CASE \A c \in containers' : Names(calls'[n].body[1], c)
          BY <4>1
      <4>2. CASE Listed(calls[n]) /\ calls'[n].body[1] = calls[n].body[1]
        <5>1. calls[d.call].at = "replied" /\ calls[n].before = calls'[n].before
            BY <2>1, <3>2, <3>4, SMTT(30) DEF CallsGrow
        <5>2. PICK c \in containers : d.call = c.call /\ d.item = c.item
            BY <5>1 DEF ContainersMove
        <5>3. Names(calls[n].body[1], c)
            BY <2>1, <3>4, <4>2, <5>1, <5>2 DEF CellInv
        <5> QED
            BY <4>2, <5>2, <5>3, SMTT(30) DEF Names
      <4> QED
          BY <2>1, <3>4, <4>1, <4>2 DEF CallsGrow
    <3> QED
        BY <3>1, <3>2, <3>3, <3>4
  <2>2. CASE n \notin DOMAIN calls
      BY <2>2 DEF CellInv, CallsGrow
  <2> QED
      BY <2>1, <2>2, SMTT(30)
<1>4. \A n \in DOMAIN calls' : Listed(calls[n])' <=> Listed(calls'[n])
    BY DEF Listed
<1>5. \A n \in DOMAIN calls', d \in containers' :
          Names(calls[n].body[1], d)' <=> Names(calls'[n].body[1], d)
    BY DEF Names
<1> QED
    BY <1>1, <1>2, <1>3, <1>4, <1>5 DEF CellInv

(* A step of one call lets the calls grow, if a listing names what there is. *)
LEMMA TouchGrows ==
    ASSUME Inv, NEW n \in DOMAIN calls, Touches(n),
           StateLists(n) => \A c \in containers' : Names(calls'[n].body[1], c)
    PROVE  CallsGrow
<1>1. PICK S : calls \in Seq(S)
    BY DEF Inv
<1>2. /\ DOMAIN calls' = DOMAIN calls
      /\ \A i \in DOMAIN calls : i # n => calls'[i] = calls[i]
    BY <1>1, UpdateCall, SMTT(30) DEF Touches
<1> QED
    BY <1>2 DEF Touches, CallsGrow

(* Containers that only go keep their invariant. *)
LEMMA ContainersGo ==
    ASSUME CellInv, containers' \subseteq containers
    PROVE  ContainersMove
    BY SMTT(30) DEF CellInv, ContainersMove

(* The faults stay within their bound. *)
LEMMA FaultsBounded ==
    ASSUME CellInv, [Next]_vars
    PROVE  faults' \in 0..MaxFaults
<1>1. ASSUME NEW n, TimesOut(n) \/ Returns(n) PROVE faults' = faults \/ Fault
    BY <1>1, Zenon DEF TimesOut, Returns
<1>2. ASSUME NEW n, Perform(n) \/ Allocate(n) PROVE faults' = faults \/ Fault
    BY <1>2, Zenon DEF Perform, Allocate
<1>3. ASSUME NEW n, StateLists(n) \/ StateReplies(n) \/ StateFails(n) PROVE faults' = faults \/ Fault
    BY <1>3, Zenon DEF StateLists, StateReplies, StateFails
<1>4. ASSUME NEW n, StopLRPInstance(n) \/ CancelTask(n) PROVE faults' = faults \/ Fault
    BY <1>4, Zenon DEF StopLRPInstance, CancelTask
<1>5. ASSUME NEW n, Evacuate(n) \/ Reset(n) \/ DeleteCancelled(n) PROVE faults' = faults \/ Fault
    BY <1>5, Zenon DEF Evacuate, Reset, DeleteCancelled
<1>6. ASSUME NEW c, ContainerRuns(c) \/ ContainerGoes(c) PROVE faults' = faults
    BY <1>6, Zenon DEF ContainerRuns, ContainerGoes
<1>7. ASSUME NEW route, NEW arg, Send(route, arg) PROVE faults' = faults
    BY <1>7, Zenon DEF Send
<1>8. CreateClient => faults' = faults
    BY Zenon DEF CreateClient
<1>9. faults' = faults \/ Fault
    BY <1>1, <1>2, <1>3, <1>4, <1>5, <1>6, <1>7, <1>8 DEF Next, Serve, vars
<1> QED
    BY <1>9, ApiAssumption DEF CellInv, Fault

(* The listing names every container there is. *)
LEMMA ListingNames ==
    ASSUME Inv, CellInv, NEW n \in DOMAIN calls, StateLists(n), NEW c \in containers
    PROVE  Names(calls'[n].body[1], c)
<1> DEFINE of(lifecycle) == {d \in containers : Tag(d.tags, "lifecycle") = <<lifecycle>>}
           keys == {ActualLRPKeyFromTags(d.tags) : d \in of("lrp")}
           lrps == {key[1] : key \in keys \ {Error}}
           tasks == {[guid |-> d.guid, domain |-> Tag(d.tags, "domain")] : d \in of("task")}
           listing == [lrps |-> lrps, tasks |-> tasks]
<1>1. IsCall(calls[n]) /\ ContainerInv(c)
    BY DEF Inv, CallInv, CellInv
<1>2. calls'[n] = [calls[n] EXCEPT !.at = "listed", !.body = <<listing>>]
    BY Zenon DEF StateLists
<1>3. calls'[n].body = <<listing>>
    BY <1>1, <1>2, Zenon DEF IsCall
<1>4. calls'[n].body[1] = listing
    BY <1>3
<1>5. CASE c.item \in Task
  <2>1. c \in of("task") /\ c.guid = Work[c.item].guid
        /\ Tag(c.tags, "domain") = <<Work[c.item].domain>>
      BY <1>1, <1>5 DEF ContainerInv
  <2>2. [guid |-> c.guid, domain |-> Tag(c.tags, "domain")] \in tasks
      BY <2>1
  <2>3. [guid |-> Work[c.item].guid, domain |-> <<Work[c.item].domain>>] \in listing.tasks
      BY <2>1, <2>2
  <2> QED
      BY <1>4, <1>5, <2>3, Zenon DEF Names
<1>6. CASE c.item \notin Task
  <2> DEFINE lrp == Work[c.item]
             key == [process |-> lrp.process, index |-> lrp.index, domain |-> lrp.domain]
  <2>1. c.tags = LRPTags(lrp, c.guid) /\ lrp.index \in 0..(Half - 1)
      BY <1>1, <1>6, ApiAssumption, SMTT(30) DEF ContainerInv
  <2>2. Tag(c.tags, "lifecycle") = <<"lrp">>
    <3>1. Tag(LRPTags(lrp, c.guid), "lifecycle") = <<"lrp">>
        BY Zenon DEF Tag, LRPTags
    <3> QED
        BY <2>1, <3>1
  <2>3. ActualLRPKeyFromTags(c.tags) = <<key>>
      BY <2>1, KeysFromTags
  <2>4. <<key>> \in keys
      BY <2>2, <2>3, SMTT(30)
  <2>5. <<key>> # Error /\ <<key>>[1] = key
      BY DEF Error
  <2>6. key \in lrps
      BY <2>4, <2>5, Zenon
  <2>7. key \in listing.lrps
      BY <2>6
  <2> QED
      BY <1>4, <1>6, <2>7, Zenon DEF Names
<1> QED
    BY <1>5, <1>6

(* Perform places what was asked for. *)
LEMMA AllocatePlaces ==
    ASSUME Inv, CellInv, NEW n \in DOMAIN calls, Allocate(n)
    PROVE  ContainersMove
<1> DEFINE item == calls[n].arg
           path == PathForRootFS(Work[item].rootfs, StackMap)
           request == Requested(n, path[1])
<1>1. calls[n].route = "PERFORM" /\ calls[n].at = "allocating" /\ item \in LRP \cup Task
    BY Zenon DEF Allocate, Serving, CellInv
<1>2. CASE containers' = containers
    BY <1>2, ContainersGo
<1>3. CASE path # Error /\ containers' = containers \cup {request} /\ Reply(n, 200, <<{}>>, TRUE)
  <2>1. path = <<path[1]>>
      BY <1>3, Zenon DEF PathForRootFS, Error
  <2> HIDE DEF path
  <2>2. ContainerInv(request)
    <3> DEFINE guid == IF item \in Task THEN Work[item].guid
                       ELSE LRPContainerGuid(Work[item].process, <<"instance", n>>)
               tags == IF item \in Task THEN TaskTags(Work[item])
                       ELSE LRPTags(Work[item], <<"instance", n>>)
    <3>1. request = [guid |-> guid, item |-> item, path |-> path[1], state |-> "reserved",
                     run |-> <<>>, call |-> n, tags |-> tags]
        BY Zenon DEF Requested
    <3>2. item \in Task => /\ guid = Work[item].guid
                           /\ Tag(tags, "lifecycle") = <<"task">>
                           /\ Tag(tags, "domain") = <<Work[item].domain>>
        BY Zenon DEF Tag, TaskTags
    <3>3. item \notin Task => tags = LRPTags(Work[item], guid)
        BY Zenon DEF LRPContainerGuid
    <3>4. PathForRootFS(Work[item].rootfs, StackMap) = <<path[1]>>
        BY <2>1 DEF path
    <3> HIDE DEF guid, tags, request
    <3> QED
        BY <1>1, <3>1, <3>2, <3>3, <3>4, Zenon DEF ContainerInv, IsContainer
  <2>3. request.call = n
      BY Zenon DEF Requested
  <2>4. n \in DOMAIN calls' /\ calls'[n].at = "replied"
    <3>1. IsCall(calls[n]) /\ \E S : calls \in Seq(S)
        BY DEF Inv, CallInv
    <3>2. Answered(n, 200, <<{}>>, TRUE)
        BY <1>3, <3>1, ReplyAnswers, Zenon
    <3>3. DOMAIN calls' = DOMAIN calls
        BY <1>3, Zenon DEF Reply
    <3> QED
        BY <3>2, <3>3 DEF Answered
  <2> HIDE DEF request
  <2> QED
      BY <1>1, <1>3, <2>2, <2>3, <2>4 DEF ContainersMove, CellInv
<1> QED
    BY <1>2, <1>3, Zenon DEF Allocate

(* A stopped container keeps what it was placed for. *)
LEMMA StopMoves ==
    ASSUME CellInv, NEW n \in DOMAIN calls, StopLRPInstance(n)
    PROVE  ContainersMove
<1>1. CASE containers' = containers
    BY <1>1, ContainersGo
<1>2. CASE \E own \in SUBSET containers :
              containers' = (containers \ own) \cup {[c EXCEPT !.state = "completed"] : c \in own}
  <2>1. PICK own \in SUBSET containers :
              containers' = (containers \ own) \cup {[c EXCEPT !.state = "completed"] : c \in own}
      BY <1>2, Zenon
  <2>2. ASSUME NEW c \in containers
        PROVE  LET d == [c EXCEPT !.state = "completed"]
               IN  ContainerInv(d) /\ d.call = c.call /\ d.item = c.item
    <3> DEFINE d == [c EXCEPT !.state = "completed"]
    <3>1. ContainerInv(c)
        BY DEF CellInv
    <3>2. d = [guid |-> c.guid, item |-> c.item, path |-> c.path, state |-> "completed",
               run |-> c.run, call |-> c.call, tags |-> c.tags]
      <4>1. IsContainer(c)
          BY <3>1 DEF ContainerInv
      <4> QED
          BY <4>1 DEF IsContainer
    <3> HIDE DEF d
    <3>3. /\ d.guid = c.guid /\ d.item = c.item /\ d.path = c.path /\ d.state = "completed"
          /\ d.run = c.run /\ d.call = c.call /\ d.tags = c.tags
        BY <3>2
    <3>4. ContainerInv(d)
        BY <3>1, <3>2, <3>3, Zenon DEF ContainerInv, IsContainer, RunAs
    <3> QED
        BY <3>3, <3>4, SMTT(30) DEF d
  <2>3. \A d \in containers' : \/ d \in containers
                                \/ \E c \in containers : d = [c EXCEPT !.state = "completed"]
      BY <2>1
  <2>4. ASSUME NEW d \in containers'
        PROVE  ContainerInv(d) /\ \E c \in containers : d.call = c.call /\ d.item = c.item
    <3>1. CASE d \in containers
        BY <3>1 DEF CellInv
    <3>2. ASSUME NEW c \in containers, d = [c EXCEPT !.state = "completed"]
          PROVE  ContainerInv(d) /\ d.call = c.call /\ d.item = c.item
        BY <2>2, <3>2, Zenon
    <3> QED
        BY <2>3, <3>1, <3>2, Zenon
  <2> QED
      BY <2>4, Zenon DEF ContainersMove
<1> QED
    BY <1>1, <1>2, Zenon DEF StopLRPInstance

(* The record of a container when it is run. *)
LEMMA RunningContainer ==
    ASSUME NEW c, IsContainer(c), NEW s, NEW r, NEW g
    PROVE  [c EXCEPT !.state = s, !.run = r, !.tags = g]
           = [guid |-> c.guid, item |-> c.item, path |-> c.path, state |-> s,
              run |-> r, call |-> c.call, tags |-> g]
<1> DEFINE R(ss, rr, gg) == [guid |-> c.guid, item |-> c.item, path |-> c.path, state |-> ss,
                             run |-> rr, call |-> c.call, tags |-> gg]
           c1 == [c EXCEPT !.state = s]
           c2 == [c1 EXCEPT !.run = r]
           c3 == [c2 EXCEPT !.tags = g]
<1>1. c = R(c.state, c.run, c.tags)
    BY DEF IsContainer
<1>2. /\ \A ss, rr, gg : [R(ss, rr, gg) EXCEPT !.state = s] = R(s, rr, gg)
      /\ \A ss, rr, gg : [R(ss, rr, gg) EXCEPT !.run = r] = R(ss, r, gg)
      /\ \A ss, rr, gg : [R(ss, rr, gg) EXCEPT !.tags = g] = R(ss, rr, g)
    OBVIOUS
<1>3. [c EXCEPT !.state = s, !.run = r, !.tags = g] = c3
    OBVIOUS
<1> HIDE DEF R, c1, c2, c3
<1>4. c1 = R(s, c.run, c.tags)
    BY <1>1, <1>2 DEF c1
<1>5. c2 = R(s, r, c.tags)
    BY <1>2, <1>4 DEF c2
<1>6. c3 = R(s, r, g)
    BY <1>2, <1>5, SMTT(30) DEF c3
<1> QED
    BY <1>3, <1>6, SMTT(30) DEF R

(* A container is run as what it was placed for, whose key and instance    *)
(* the harmonizer reads from the tags.                                     *)
LEMMA RunMoves ==
    ASSUME CellInv, NEW c \in containers, ContainerRuns(c)
    PROVE  ContainersMove
<1> DEFINE key == ActualLRPKeyFromTags(c.tags)
           instance == ActualLRPInstanceKeyFromContainer(c.tags)
           request == IF c.item \in Task THEN NewRunRequestFromTask(Work[c.item])
                      ELSE IF key = Error \/ instance = Error THEN Error
                      ELSE NewRunRequestFromDesiredLRP(Work[c.item], key[1], instance[1])
           tag(k) == IF k \in DOMAIN request[1].tags THEN request[1].tags[k] ELSE c.tags[k]
           tags == [k \in DOMAIN c.tags \cup DOMAIN request[1].tags |-> tag(k)]
           d == [c EXCEPT !.state = "running", !.run = request, !.tags = tags]
<1>0. request # Error
    BY Zenon DEF ContainerRuns
<1>1. containers' = (containers \ {c}) \cup {d}
    BY Zenon DEF ContainerRuns
<1>2. ContainerInv(c)
    BY DEF CellInv
<1>3. d = [guid |-> c.guid, item |-> c.item, path |-> c.path, state |-> "running",
           run |-> request, call |-> c.call, tags |-> tags]
  <2>1. IsContainer(c)
      BY <1>2, SMTT(30) DEF ContainerInv
  <2> HIDE DEF request, tags
  <2> QED
      BY <2>1, RunningContainer, Zenon
<1>4. request = RunAs(c)
  <2>1. CASE c.item \in Task
      BY <2>1, Zenon DEF RunAs
  <2>2. CASE c.item \notin Task
    <3>1. c.tags = LRPTags(Work[c.item], c.guid) /\ Work[c.item].index \in 0..(Half - 1)
        BY <1>2, <2>2, ApiAssumption DEF ContainerInv
    <3> DEFINE k == [process |-> Work[c.item].process, index |-> Work[c.item].index,
                     domain |-> Work[c.item].domain]
    <3>2. key = <<k>> /\ instance = <<c.guid>>
        BY <3>1, KeysFromTags, SMTT(30)
    <3>3. <<k>>[1] = k /\ <<k>> # Error /\ <<c.guid>>[1] = c.guid /\ <<c.guid>> # Error
        BY DEF Error
    <3> QED
        BY <2>2, <3>2, <3>3, Zenon DEF RunAs
  <2> QED
      BY <2>1, <2>2, SMTT(30)
<1>5. c.item \notin Task => tags = c.tags
  <2> SUFFICES ASSUME c.item \notin Task PROVE tags = c.tags
      BY ZenonT(30)
  <2>1. request[1].tags = NoTags
    <3>1. \E i, p : request = RunRequest(Work[c.item], i, p, NoTags)
        BY <1>4, Zenon DEF RunAs, NewRunRequestFromDesiredLRP
    <3> HIDE DEF request
    <3> QED
        BY <1>0, <3>1, RunRequestFields, SMTT(30)
  <2>2. DOMAIN NoTags = {}
      BY DEF NoTags
  <2>3. c.tags = [k \in DOMAIN c.tags |-> c.tags[k]]
    <3>1. c.tags = LRPTags(Work[c.item], c.guid)
        BY <1>2 DEF ContainerInv
    <3> QED
        BY <3>1, Zenon DEF LRPTags
  <2> HIDE DEF request
  <2> QED
      BY <2>1, <2>2, <2>3
<1>6. c.item \in Task => /\ Tag(tags, "lifecycle") = <<"task">>
                         /\ Tag(tags, "domain") = <<Work[c.item].domain>>
                         /\ Tag(tags, "resultFile") = Work[c.item].resultFile
  <2> SUFFICES ASSUME c.item \in Task
               PROVE  /\ Tag(tags, "lifecycle") = <<"task">>
                      /\ Tag(tags, "domain") = <<Work[c.item].domain>>
                      /\ Tag(tags, "resultFile") = Work[c.item].resultFile
      BY ZenonT(30)
  <2>1. request[1].tags = [resultFile |-> Work[c.item].resultFile]
    <3> DEFINE added == [resultFile |-> Work[c.item].resultFile]
    <3>1. \E i, p : request = RunRequest(Work[c.item], i, p, added)
        BY <1>4, Zenon DEF RunAs, NewRunRequestFromTask
    <3> HIDE DEF request, added
    <3>2. request[1].tags = added
        BY <1>0, <3>1, RunRequestFields
    <3> QED
        BY <3>2 DEF added
  <2>2. /\ "lifecycle" \in DOMAIN c.tags /\ c.tags["lifecycle"] = <<"task">>
        /\ "domain" \in DOMAIN c.tags /\ c.tags["domain"] = <<Work[c.item].domain>>
    <3>1. Tag(c.tags, "lifecycle") = <<"task">> /\ Tag(c.tags, "domain") = <<Work[c.item].domain>>
        BY <1>2 DEF ContainerInv
    <3>2. <<"task">> # Blank /\ <<Work[c.item].domain>> # Blank
        BY DEF Blank
    <3> QED
        BY <3>1, <3>2, Zenon DEF Tag
  <2> DEFINE added == [resultFile |-> Work[c.item].resultFile]
  <2>3. /\ DOMAIN added = {"resultFile"} /\ added["resultFile"] = Work[c.item].resultFile
      OBVIOUS
  <2> HIDE DEF request
  <2>4. tags = [k \in DOMAIN c.tags \cup DOMAIN added |->
                   IF k \in DOMAIN added THEN added[k] ELSE c.tags[k]]
      BY <2>1, Zenon
  <2> HIDE DEF added, tags
  <2> QED
      BY <2>2, <2>3, <2>4, Zenon DEF Tag
<1>7. ContainerInv(d) /\ d.call = c.call /\ d.item = c.item
  <2> HIDE DEF d, request, tags
  <2>1. /\ d.guid = c.guid /\ d.item = c.item /\ d.path = c.path /\ d.state = "running"
        /\ d.run = request /\ d.call = c.call /\ d.tags = tags
      BY <1>3
  <2>2. RunAs(d) = RunAs(c)
      BY <2>1, Zenon DEF RunAs
  <2>3. ContainerInv(d)
      BY <1>2, <1>3, <1>4, <1>5, <1>6, <2>1, <2>2, Zenon DEF ContainerInv, IsContainer
  <2> QED
      BY <2>1, <2>3, SMTT(30)
<1> HIDE DEF d
<1> QED
    BY <1>1, <1>7 DEF ContainersMove, CellInv

(* A call that is sent after the others. *)
LEMMA SendGrows ==
    ASSUME Inv, CellInv, NEW route \in DOMAIN Expected, NEW arg, Send(route, arg),
           route = "PERFORM" => arg \in LRP \cup Task
    PROVE  CallsGrow
<1> DEFINE url == IF route \in Scripted THEN Address ELSE client.url
           c   == IF Reaches(route, url, client.certs)
                  THEN NewCall(route, arg, "sent", "waiting")
                  ELSE NewCall(route, arg, "refused", "error")
<1>1. calls' = Append(calls, c)
    BY DEF Send
<1>2. PICK S : calls \in Seq(S)
    BY DEF Inv
<1>3. /\ c.route = route /\ c.arg = arg /\ c.at \in {"sent", "refused"}
      /\ \A k \in c.before.placed : \E d \in containers : k = d.call
    BY Zenon DEF NewCall
<1> HIDE DEF c
<1>4. /\ \A i \in DOMAIN calls' :
            calls'[i] = c \/ (i \in DOMAIN calls /\ calls'[i] = calls[i])
      /\ \A i \in DOMAIN calls : i \in DOMAIN calls' /\ calls'[i] = calls[i]
    BY <1>1, <1>2, AppendCall
<1>5. ~Listed(c)
    BY <1>3, SMTT(30) DEF Listed
<1> QED
    BY <1>3, <1>4, <1>5, SMTT(30) DEF CallsGrow

(* Every step keeps the invariant of the containers. *)
LEMMA NextCellInv == Inv /\ CellInv /\ [Next]_vars => CellInv'
<1> SUFFICES ASSUME Inv, CellInv, [Next]_vars PROVE CellInv'
    OBVIOUS
<1>1. faults' \in 0..MaxFaults
    BY FaultsBounded
<1>2. CASE calls' = calls /\ containers' = containers /\ config' = config
  <2>1. CallsGrow
      BY <1>2 DEF CallsGrow
  <2> QED
      BY <1>1, <1>2, <2>1, ContainersGo, CellStep, SMTT(30)
<1>3. ASSUME NEW route \in DOMAIN Expected, NEW arg, Send(route, arg),
             route = "PERFORM" => arg \in LRP \cup Task
      PROVE  CellInv'
  <2>1. containers' = containers /\ config' = config
      BY <1>3 DEF Send, cellVars
  <2>2. CallsGrow
      BY <1>3, SendGrows, SMTT(30)
  <2> QED
      BY <1>1, <2>1, <2>2, ContainersGo, CellStep, SMTT(30)
<1>4. ASSUME NEW n \in DOMAIN calls,
             TimesOut(n) \/ Returns(n) \/ Serve(n) \/ DeleteCancelled(n)
      PROVE  CellInv'
  <2>1. Touches(n) /\ config' = config
      BY <1>4, TouchingStep DEF Touches
  <2>2. CallsGrow
    <3>1. ASSUME StateLists(n) PROVE \A c \in containers' : Names(calls'[n].body[1], c)
      <4>1. containers' = containers
          BY <3>1, Zenon DEF StateLists, cellVars
      <4> QED
          BY <3>1, <4>1, ListingNames, SMTT(30)
    <3> QED
        BY <2>1, <3>1, TouchGrows, SMTT(30)
  <2>3. ContainersMove
    <3>1. CASE TimesOut(n) \/ Returns(n) \/ Perform(n) \/ DeleteCancelled(n)
      <4>1. containers' \subseteq containers
          BY <3>1, Zenon DEF TimesOut, Returns, Perform, DeleteCancelled, cellVars
      <4> QED
          BY <4>1, ContainersGo
    <3>2. CASE \/ StateLists(n) \/ StateReplies(n) \/ StateFails(n)
               \/ CancelTask(n) \/ Evacuate(n) \/ Reset(n)
      <4>1. containers' = containers
          BY <3>2, Zenon DEF StateLists, StateReplies, StateFails, CancelTask, Evacuate,
                             Reset, cellVars
      <4> QED
          BY <4>1, ContainersGo, SMTT(30)
    <3>3. CASE Allocate(n)
        BY <3>3, AllocatePlaces
    <3>4. CASE StopLRPInstance(n)
        BY <3>4, StopMoves
    <3> QED
        BY <1>4, <3>1, <3>2, <3>3, <3>4, Zenon DEF Serve
  <2> QED
      BY <1>1, <2>1, <2>2, <2>3, CellStep, SMTT(30)
<1>5. ASSUME NEW c \in containers, ContainerRuns(c) \/ ContainerGoes(c)
      PROVE  CellInv'
  <2>1. calls' = calls /\ config' = config
      BY <1>5, Zenon DEF ContainerRuns, ContainerGoes
  <2>2. ContainersMove
    <3>1. ContainerGoes(c) => containers' \subseteq containers
        BY DEF ContainerGoes
    <3> QED
        BY <1>5, <3>1, ContainersGo, RunMoves
  <2>3. \A n \in DOMAIN calls : Listed(calls'[n]) => Listed(calls[n])
      BY <2>1
  <2>4. CallsGrow
      BY <2>1, <2>3 DEF CallsGrow
  <2> QED
      BY <1>1, <2>1, <2>2, <2>4, CellStep
<1>6. CreateClient \/ vars' = vars =>
          calls' = calls /\ containers' = containers /\ config' = config
    BY DEF CreateClient, cellVars, vars
<1>7. {"PERFORM", "StopLRPInstance", "CancelTask", "STATE", "RESET", "Evacuate"}
      \subseteq DOMAIN Expected
    BY DEF Expected
<1> QED
    BY <1>2, <1>3, <1>4, <1>5, <1>6, <1>7 DEF Next

(* It holds initially. *)
LEMMA InitCellInv == Init => CellInv
<1> SUFFICES ASSUME Init PROVE CellInv
    OBVIOUS
<1>1. UnmarshalStackMap(config.stacks) # Error /\ containers = {} /\ calls = <<>> /\ faults = 0
    BY DEF Init
<1>2. DOMAIN calls = {}
    BY <1>1, SMTT(30)
<1>3. faults \in 0..MaxFaults
    BY <1>1, ApiAssumption
<1> QED
    BY <1>1, <1>2, <1>3, Zenon DEF CellInv

LEMMA CellInvariance == Spec => [](Inv /\ CellInv)
<1>1. Init => Inv /\ CellInv
    BY InitInv, InitCellInv, SMTT(30)
<1>2. Inv /\ CellInv /\ [Next]_vars => Inv' /\ CellInv'
    BY NextInv, NextCellInv
<1> QED
    BY <1>1, <1>2, PTL DEF Spec

-----------------------------------------------------------------------------
(* Whatever the two sides are configured for, a client that CreateClient   *)
(* (client.go) has made reaches the routes of the cell (main.go,           *)
(* routes.go, handlers.go), but for the two exceptions the property names. *)
THEOREM EveryClientReachesCell == Spec => []ClientReachesCell
<1>1. Inv => ClientReachesCell
    BY InvImplies
<1> QED
    BY <1>1, Invariance, PTL

(* What State, Perform, StopLRPInstance and Reset of client.go return      *)
(* without an error is what the cell has done, however requests and        *)
(* answers are delayed or lost.                                            *)
THEOREM ReturnsTheTruth == Spec => []AnswersAreTrue
<1>1. Inv => AnswersAreTrue
    BY InvImplies
<1> QED
    BY <1>1, Invariance, PTL

(* No work sent after the answer to Evacuate gets a container from         *)
(* Perform (auction_cell_rep.go), among any number of concurrent calls.    *)
THEOREM TakesNoWorkWhenEvacuating == Spec => []EvacuatingTakesNoWork
<1>1. Inv => EvacuatingTakesNoWork
    BY InvImplies
<1> QED
    BY <1>1, Invariance, PTL

(* Every variable keeps its range, among them the status of a reply (which *)
(* is 0 exactly until handlers.go writes one) and the containers' states.  *)
THEOREM TypeCorrect == Spec => []TypeOK
<1>1. Inv /\ CellInv => TypeOK
  <2> SUFFICES ASSUME Inv, CellInv PROVE TypeOK
      OBVIOUS
  <2>1. \A n \in DOMAIN calls : CallType(calls[n])
      BY DEF Inv, CallInv
  <2>2. cancelling \subseteq DOMAIN calls /\ config \in RepConfig /\ evacuating \in BOOLEAN
        /\ client.url \in {NoURL, Address, RepURL}
      BY DEF Inv, ClientInv
  <2>3. /\ faults \in 0..MaxFaults
        /\ \A c \in containers : c.item \in LRP \cup Task
                                /\ c.state \in {"reserved", "running", "completed"}
      BY SMTT(30) DEF CellInv, ContainerInv
  <2> QED
      BY <2>1, <2>2, <2>3, Zenon DEF TypeOK, CallType
<1> QED
    BY <1>1, CellInvariance, PTL

(* A State that client.go returns names all work that had its container    *)
(* when the call was sent and has it still, under the key it was placed    *)
(* with: what lrpsToAllocationRequest writes into the tags, State of       *)
(* auction_cell_rep.go reads back, for every index, also after the run     *)
(* request has replaced the tags.                                          *)
THEOREM StatesNamePlacedWork == Spec => []StateNamesPlacedWork
<1>1. Inv /\ CellInv => StateNamesPlacedWork
  <2> SUFFICES ASSUME Inv, CellInv, NEW n \in DOMAIN calls,
                      calls[n].route = "STATE", calls[n].outcome = "ok",
                      NEW c \in containers, c.call \in calls[n].before.placed
               PROVE  Names(calls[n].body[1], c)
      BY Zenon DEF StateNamesPlacedWork, Names
  <2>1. calls[n].at = "replied" /\ calls[n].status = Expected["STATE"]
      BY DEF Inv, CallInv, Decided
  <2>2. Listed(calls[n])
      BY <2>1, ExpectedStatus DEF Listed
  <2> QED
      BY <2>2 DEF CellInv
<1> QED
    BY <1>1, CellInvariance, PTL

(* What a State says of the root file systems (RootFSProviders, through    *)
(* MarshalJSON and UnmarshalJSON of rootfs_providers.go) is what           *)
(* PathForRootFS (auction_cell_rep.go) can translate, with the path of     *)
(* the last entry that UnmarshalJSON of StackMap (config.go) found for the *)
(* stack, for any texts and any providers without the reserved schemes.    *)
THEOREM OffersWhatItProvides == Spec => []ProvidersAreProvided
<1>1. Inv /\ CellInv => ProvidersAreProvided
  <2> SUFFICES ASSUME Inv, CellInv, NEW n \in DOMAIN calls,
                      calls[n].route = "STATE", calls[n].outcome = "ok",
                      NEW r \in RootFS
               PROVE  LET ps   == UnmarshalProviders(calls[n].body[2])
                          path == PathForRootFS(r, StackMap)
                      IN  /\ MatchProviders(ps, r) => path # Error
                          /\ r.scheme \in Preloaded =>
                                /\ MatchProviders(ps, r) = (path # Error)
                                /\ path # Error =>
                                      \E i \in DOMAIN config.stacks :
                                          /\ config.stacks[i] = r.opaque \o <<":">> \o path[1].path
                                          /\ \A j \in DOMAIN config.stacks :
                                                IsPrefix(r.opaque \o <<":">>, config.stacks[j])
                                                => j <= i
      BY Zenon DEF ProvidersAreProvided
  <2> DEFINE ps   == UnmarshalProviders(calls[n].body[2])
             path == PathForRootFS(r, StackMap)
  <2>1. calls[n].at = "replied" /\ calls[n].status = Expected["STATE"]
      BY DEF Inv, CallInv, Decided
  <2>2. calls[n].body[2] = Providers
      BY <2>1, ExpectedStatus DEF Inv, CallInv, TrueProviders
  <2>3. ps = RootFSProviders(StackMap, SupportedProviders)
      BY <2>2, ProvidersRoundTrip, Zenon DEF Providers
  <2>4. SupportedProviders \cap (Preloaded \cup {Unparsable}) = {}
      BY ApiAssumption
  <2>5. /\ MatchProviders(ps, r) => path # Error
        /\ r.scheme \in Preloaded => MatchProviders(ps, r) = (path # Error)
      BY <2>3, <2>4, MatchingMeansPath, Zenon
  <2>6. ASSUME r.scheme \in Preloaded, path # Error
        PROVE  \E i \in DOMAIN config.stacks :
                   /\ config.stacks[i] = r.opaque \o <<":">> \o path[1].path
                   /\ \A j \in DOMAIN config.stacks :
                         IsPrefix(r.opaque \o <<":">>, config.stacks[j]) => j <= i
    <3>1. /\ r.opaque \in DOMAIN StackMap
          /\ path[1].path = StackMap[r.opaque]
        BY <2>6, Zenon DEF PathForRootFS
    <3>2. config.stacks \in Seq(Seq(Token)) /\ UnmarshalStackMap(config.stacks) # Error
        BY ApiAssumption, TextsOfTokens, SMTT(30) DEF Inv, CellInv
    <3>3. StackMap = UnmarshalStackMap(config.stacks)[1]
        BY DEF StackMap
    <3> HIDE DEF path
    <3> QED
        BY <3>1, <3>2, <3>3, StackMapHasLastEntry, Zenon
  <2> QED
      BY <2>5, <2>6, Zenon
<1> QED
    BY <1>1, CellInvariance, PTL

(* Every port fits the 16 bits that ConvertPortMappings                    *)
(* (conversion_helpers.go) leaves of it; a larger one, which the type      *)
(* uint32 of the desired LRP admits, would be truncated.                   *)
PortsFit == \A lrp \in LRP : Work[lrp].ports \in Seq(Port)

(* A container runs as what it was placed for: index, instance guid, ports *)
(* and disk scope in the run request of NewRunRequestFromDesiredLRP and    *)
(* the result file of NewRunRequestFromTask (conversion_helpers.go) are    *)
(* the item's, though the key went through the tags, for every work whose  *)
(* ports fit.                                                              *)
THEOREM EverythingRunsAsPlaced == PortsFit => (Spec => []RunsAsPlaced)
<1> SUFFICES ASSUME PortsFit PROVE Spec => []RunsAsPlaced
    OBVIOUS
<1>1. CellInv => RunsAsPlaced
  <2> SUFFICES ASSUME CellInv, NEW c \in containers, c.run # <<>>
               PROVE  /\ c.run[1].scope = "exclusive" <=>
                            c.path.scheme = "" /\ Work[c.item].rootfs.scheme \in Preloaded
                      /\ c.item \in LRP =>
                            /\ c.run[1].info = [index |-> Work[c.item].index,
                                                INSTANCE_INDEX |-> Tag(c.tags, "index"),
                                                INSTANCE_GUID |-> c.guid]
                            /\ ActualLRPNetInfoFromContainer(c.run[1]) = Work[c.item].ports
                      /\ c.item \in Task => Tag(c.tags, "resultFile") = Work[c.item].resultFile
      BY ZenonT(30) DEF RunsAsPlaced
  <2> DEFINE work == Work[c.item]
             info == [index |-> work.index, INSTANCE_INDEX |-> Itoa[work.index],
                      INSTANCE_GUID |-> c.guid]
  <2>1. ContainerInv(c) /\ c.run = RunAs(c) /\ c.run # Error
      BY Zenon DEF CellInv, ContainerInv, Error
  <2>2. c.item \in Task => \E i, p, g : c.run = RunRequest(work, i, p, g)
      BY <2>1, ZenonT(30) DEF RunAs, NewRunRequestFromTask
  <2>3. c.item \notin Task => c.run = RunRequest(work, info, ConvertPortMappings(work.ports), NoTags)
      BY <2>1, SMTT(30) DEF RunAs, NewRunRequestFromDesiredLRP
  <2> HIDE DEF info
  <2>4. c.run[1].scope = "exclusive" <=> work.rootfs.scheme = "preloaded"
      BY <2>1, <2>2, <2>3, RunRequestFields
  <2>5. PathForRootFS(work.rootfs, StackMap) = <<c.path>>
      BY <2>1 DEF ContainerInv
  <2>6. work.rootfs.scheme = "preloaded" <=>
            c.path.scheme = "" /\ work.rootfs.scheme \in Preloaded
      BY <2>5, PathAlone, Zenon
  <2>7. ASSUME c.item \in LRP
        PROVE  /\ c.run[1].info = [index |-> work.index, INSTANCE_INDEX |-> Tag(c.tags, "index"),
                                   INSTANCE_GUID |-> c.guid]
               /\ ActualLRPNetInfoFromContainer(c.run[1]) = work.ports
    <3>1. c.item \notin Task
        BY <2>7, ApiAssumption, SMTT(30)
    <3>2. c.tags = LRPTags(work, c.guid)
        BY <2>1, <3>1 DEF ContainerInv
    <3>3. Tag(LRPTags(work, c.guid), "index") = Itoa[work.index]
        BY Zenon DEF LRPTags, Tag
    <3>4. ConvertPortMappings(work.ports) = work.ports
        BY <2>7, PortsKept, Zenon DEF PortsFit
    <3>5. c.run[1].info = info /\ c.run[1].ports = work.ports
        BY <2>1, <2>3, <3>1, <3>4, RunRequestFields
    <3> QED
        BY <3>2, <3>3, <3>5, Zenon DEF ActualLRPNetInfoFromContainer, info
  <2>8. c.item \in Task => Tag(c.tags, "resultFile") = work.resultFile
      BY <2>1 DEF ContainerInv
  <2> QED
      BY <2>4, <2>6, <2>7, <2>8, Zenon
<1> QED
    BY <1>1, CellInvariance, PTL
=============================================================================
