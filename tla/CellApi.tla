------------------------------- MODULE CellApi -------------------------------
(***************************************************************************)
(* The rep's HTTP interface from both ends: the client library (client.go) *)
(* that auctioneers and the BBS use, the two servers main sets up, their   *)
(* routes and handlers, and what a handler does to the executor's          *)
(* containers.  Several calls are under way at once.  A request or an      *)
(* answer may be lost or late: the caller then gets an error while the     *)
(* handler may still do its work.                                          *)
(* A Perform carries one item here; Auction has whole Works and resources. *)
(***************************************************************************)
EXTENDS Conversions, FiniteSets

CONSTANTS
    LRP, Task,          \* the work
    Work,               \* [LRP \cup Task -> its record, see Conversions]
    RepConfig,          \* configurations: [tls, legacy, stacks]
    RootFS,             \* root file systems somebody may ask for
    SupportedProviders, \* schemes of which every root file system is supported
    MaxCalls, MaxFaults \* bounds

ASSUME ApiAssumption ==
    /\ \A c \in RepConfig : /\ c.tls \in BOOLEAN /\ c.legacy \in BOOLEAN
                            /\ c.stacks \in Seq(Seq(STRING))
    /\ LRP \cap Task = {} /\ \A lrp \in LRP : Work[lrp].index \in 0..(Half - 1)
    /\ SupportedProviders \cap (Preloaded \cup {Unparsable}) = {}
    /\ MaxCalls \in Nat /\ MaxFaults \in Nat

VARIABLES
    config,         \* the rep's configuration
    client,         \* the client CreateClient has made: its URL and certificates
    calls,          \* the calls so far, oldest first
    containers,     \* the executor's containers
    cancelling,     \* goroutines of CancelTask handlers: numbers of their calls
    evacuating,     \* the evacuation context
    faults          \* spent bound

cellVars == <<containers, cancelling, evacuating>>
vars     == <<config, client, calls, containers, cancelling, evacuating, faults>>

Fault == faults < MaxFaults /\ faults' = faults + 1

-----------------------------------------------------------------------------
(* Addresses, servers and routes.                                          *)
URL(scheme, port) == [scheme |-> scheme, port |-> port]
NoURL == URL("", "")

(* initializeServer, initializeCellPresence: the address and the URL the   *)
(* presence announces.                                                     *)
Address == URL("http", "listen")
RepURL  == URL(IF config.tls THEN "https" ELSE "http", "securable")

NewRoutes(secure) ==
    IF secure THEN {"STATE", "PERFORM", "StopLRPInstance", "CancelTask", "RESET"}
              ELSE {"Ping", "Evacuate"}

GetRoutes(secure) ==
    IF config.legacy /\ ~secure THEN NewRoutes(TRUE) \cup NewRoutes(FALSE) ELSE NewRoutes(secure)

(* handlers.New, NewLegacy *)
NewHandlers(secure) ==
    IF secure THEN {"STATE", "PERFORM", "RESET", "StopLRPInstance", "CancelTask"}
              ELSE {"Ping", "Evacuate"}

GetHandlers(secure) ==
    IF config.legacy /\ ~secure THEN NewHandlers(FALSE) \cup NewHandlers(TRUE)
                                ELSE NewHandlers(secure)

Server(secure) ==
    [scheme |-> IF secure /\ config.tls THEN "https" ELSE "http",
     serves |-> GetRoutes(secure) \cap GetHandlers(secure)]

(* A server that speaks TLS asks for a certificate. *)
Reaches(route, url, certs) ==
    LET server == Server(url.port = "securable")
    IN  /\ server.scheme = url.scheme
        /\ url.scheme = "https" => certs = "present"
        /\ route \in server.serves

-----------------------------------------------------------------------------
(* The client.                                                             *)
TLSConfig == [require : BOOLEAN, creds : BOOLEAN]

(* Faulty: a client without certificates takes an https URL. *)
PickURLWithoutCerts(tls, repURL) ==
    LET secure == repURL.scheme = "https"
    IN  IF tls.require /\ ~secure THEN NoURL
        ELSE IF repURL # NoURL THEN repURL ELSE Address

(* Faulty: an address without a URL is used with TLS if there are certificates. *)
PickURLUpgrades(tls, repURL) ==
    IF repURL # NoURL THEN repURL ELSE URL(IF tls.creds THEN "https" ELSE "http", "listen")

(* pickURL; NoURL is also its error. *)
PickURL(tls, repURL) ==
    LET secure == repURL.scheme = "https"
    IN  IF tls.require THEN (IF secure THEN repURL ELSE NoURL)
        ELSE IF secure /\ ~tls.creds THEN NoURL
        ELSE IF repURL # NoURL THEN repURL ELSE Address

(* The status each call of the client wants to see. *)
Expected == [STATE |-> 200, PERFORM |-> 200, RESET |-> 200,
             StopLRPInstance |-> 202, CancelTask |-> 202, Evacuate |-> 202]

(* Evacuate is called by the drain script, not by a client.  (So is Ping,  *)
(* by the control script; it answers 200 and touches nothing.)             *)
Scripted == {"Evacuate"}

Init ==
    /\ config \in {c \in RepConfig : UnmarshalStackMap(c.stacks) # Error}
    /\ client = [url |-> NoURL, certs |-> "unused"]
    /\ calls = <<>> /\ containers = {} /\ cancelling = {}
    /\ evacuating = FALSE /\ faults = 0

(* NewClientFactory and CreateClient, with the presence's address and URL, *)
(* or with the address alone.                                              *)
CreateClient ==
    /\ client.url = NoURL
    /\ \E tls \in TLSConfig, repURL \in {RepURL, NoURL} :
          LET url == PickURL(tls, repURL)
          IN  /\ url # NoURL
              /\ client' = [url |-> url, certs |-> IF url.scheme # "https" THEN "unused"
                                                  ELSE IF tls.creds THEN "present"
                                                  ELSE IF tls.require THEN "forgotten"
                                                  ELSE "missing"]
    /\ UNCHANGED <<config, calls, cellVars, faults>>

Guids == {c.guid : c \in containers}

(* before: which Performs had placed the containers there were when a      *)
(* State was sent, and whether Evacuate had been answered when work was    *)
(* (history).                                                              *)
NewCall(route, arg, at, outcome) ==
    [route |-> route, arg |-> arg, at |-> at, status |-> 0, body |-> <<>>,
     outcome |-> outcome, did |-> FALSE,
     before |-> [placed |-> IF route = "STATE" THEN {c.call : c \in containers} ELSE {},
                 evacuated |-> /\ route = "PERFORM"
                               /\ \E m \in DOMAIN calls : /\ calls[m].route = "Evacuate"
                                                          /\ calls[m].at = "replied"]]

Send(route, arg) ==
    /\ Len(calls) < MaxCalls /\ client.url # NoURL
    /\ LET url == IF route \in Scripted THEN Address ELSE client.url
       IN  calls' = Append(calls, IF Reaches(route, url, client.certs)
                                  THEN NewCall(route, arg, "sent", "waiting")
                                  ELSE NewCall(route, arg, "refused", "error"))
    /\ UNCHANGED <<config, client, cellVars, faults>>

(* The request or the answer is lost, or the client gives up meanwhile;    *)
(* the request may be served all the same.                                 *)
TimesOut(n) ==
    /\ calls[n].outcome = "waiting" /\ Fault
    /\ calls' = [calls EXCEPT ![n].outcome = "error"]
    /\ UNCHANGED <<config, client, cellVars>>

(* Faulty: State decodes whatever body it is sent. *)
ReturnsAnyState(n) ==
    /\ calls[n].at = "replied" /\ calls[n].outcome = "waiting"
    /\ calls' = [calls EXCEPT ![n].outcome =
                    IF \/ calls[n].status = Expected[calls[n].route]
                       \/ calls[n].route = "STATE" /\ calls[n].body # <<>>
                    THEN "ok" ELSE "error"]
    /\ UNCHANGED <<config, client, cellVars, faults>>

(* State, Perform, StopLRPInstance, CancelTask and Reset return. *)
Returns(n) ==
    /\ calls[n].at = "replied" /\ calls[n].outcome = "waiting"
    /\ calls' = [calls EXCEPT ![n].outcome =
                    IF calls[n].status = Expected[calls[n].route] THEN "ok" ELSE "error"]
    /\ UNCHANGED <<config, client, cellVars, faults>>

-----------------------------------------------------------------------------
(* The handlers.                                                           *)
StackMap == UnmarshalStackMap(config.stacks)[1]

Serving(n, route, at) == calls[n].route = route /\ calls[n].at = at

Reply(n, status, body, did) ==
    calls' = [calls EXCEPT ![n] = [@ EXCEPT !.at = "replied", !.status = status,
                                            !.body = body, !.did = did]]

(* Perform: an evacuating cell hands the work back. *)
Perform(n) ==
    /\ Serving(n, "PERFORM", "sent")
    /\ IF evacuating THEN Reply(n, 200, <<{calls[n].arg}>>, FALSE)
       ELSE calls' = [calls EXCEPT ![n].at = "allocating"]
    /\ UNCHANGED <<config, client, cellVars, faults>>

(* The container requested for an item: a new instance of an LRP, or the   *)
(* task's own.  (call is history: the Perform that placed it.)             *)
Requested(n, path) ==
    LET item == calls[n].arg
        guid == IF item \in Task THEN Work[item].guid
                ELSE LRPContainerGuid(Work[item].process, <<"instance", n>>)
    IN  [guid |-> guid, item |-> item, path |-> path, state |-> "reserved", run |-> <<>>,
         call |-> n,
         tags |-> IF item \in Task THEN TaskTags(Work[item])
                 ELSE LRPTags(Work[item], <<"instance", n>>)]

(* Translate the item and have its container allocated.  It fails without  *)
(* a root file system, if no guid can be made, if the executor refuses it  *)
(* (it has no room, or has the guid) or if the call fails.                 *)
Allocate(n) ==
    /\ Serving(n, "PERFORM", "allocating")
    /\ LET path    == PathForRootFS(Work[calls[n].arg].rootfs, StackMap)
           request == Requested(n, path[1])
           refused == Reply(n, 200, <<{calls[n].arg}>>, FALSE) /\ UNCHANGED containers
       IN  IF path = Error THEN refused /\ UNCHANGED faults
           ELSE \/ request.guid \in Guids /\ refused /\ UNCHANGED faults
                \/ refused /\ Fault
                \/ /\ request.guid \notin Guids
                   /\ containers' = containers \cup {request}
                   /\ Reply(n, 200, <<{}>>, TRUE) /\ UNCHANGED faults
    /\ UNCHANGED <<config, client, cancelling, evacuating>>

(* State: what the containers' tags say is listed first (containers        *)
(* without tags are skipped, as are LRPs without a proper key), *)
StateLists(n) ==
    /\ Serving(n, "STATE", "sent")
    /\ LET of(lifecycle) == {c \in containers : Tag(c.tags, "lifecycle") = <<lifecycle>>}
           keys == {ActualLRPKeyFromTags(c.tags) : c \in of("lrp")}
       IN  calls' = [calls EXCEPT ![n].at = "listed", ![n].body =
                        <<[lrps  |-> {key[1] : key \in keys \ {Error}},
                           tasks |-> {[guid |-> c.guid, domain |-> Tag(c.tags, "domain")] :
                                         c \in of("task")}]>>]
    /\ UNCHANGED <<config, client, cellVars, faults>>

(* and the health is asked for last: an unhealthy cell sends its state with *)
(* the status 503.                                                         *)
StateReplies(n) ==
    /\ Serving(n, "STATE", "listed")
    /\ \E healthy \in BOOLEAN :
          LET ps == RootFSProviders(StackMap, SupportedProviders)
          IN  Reply(n, IF healthy THEN 200 ELSE 503,
                    <<calls[n].body[1], MarshalProviders(ps)>>, healthy)
    /\ UNCHANGED <<config, client, cellVars, faults>>

StateFails(n) ==
    /\ Serving(n, "STATE", "sent") \/ Serving(n, "STATE", "listed")
    /\ Reply(n, 500, <<>>, FALSE) /\ Fault
    /\ UNCHANGED <<config, client, cellVars>>

(* StopLRPInstance: both guids must be given.  StopContainer (external)    *)
(* refuses a guid it does not have and may fail.                           *)
StopLRPInstance(n) ==
    /\ Serving(n, "StopLRPInstance", "sent")
    /\ LET process  == calls[n].arg.process
           instance == calls[n].arg.instance
           own      == {c \in containers : <<c.guid>> = LRPContainerGuid(process, instance)}
           refused(status) == Reply(n, status, <<>>, FALSE) /\ UNCHANGED containers
       IN  IF process = Blank \/ instance = Blank THEN refused(400) /\ UNCHANGED faults
           ELSE \/ own = {} /\ refused(500) /\ UNCHANGED faults
                \/ refused(500) /\ Fault
                \/ /\ own # {}
                   /\ containers' = (containers \ own)
                                    \cup {[c EXCEPT !.state = "completed"] : c \in own}
                   /\ Reply(n, 202, <<>>, TRUE) /\ UNCHANGED faults
    /\ UNCHANGED <<config, client, cancelling, evacuating>>

(* Faulty: the container is left to the harmonizer. *)
CancelTaskOnlyAccepts(n) ==
    /\ Serving(n, "CancelTask", "sent")
    /\ Reply(n, 202, <<>>, FALSE)
    /\ UNCHANGED <<config, client, cellVars, faults>>

(* CancelTask answers and leaves the deletion to a goroutine, *)
CancelTask(n) ==
    /\ Serving(n, "CancelTask", "sent")
    /\ Reply(n, 202, <<>>, FALSE)
    /\ cancelling' = cancelling \cup {n}
    /\ UNCHANGED <<config, client, containers, evacuating, faults>>

(* which tries once. *)
DeleteCancelled(n) ==
    /\ n \in cancelling /\ cancelling' = cancelling \ {n}
    /\ \/ /\ containers' = {c \in containers : c.guid # Work[calls[n].arg].guid}
          /\ calls' = [calls EXCEPT ![n].did = TRUE] /\ UNCHANGED faults
       \/ /\ Fault /\ calls' = [calls EXCEPT ![n].body = <<"undeleted">>]
          /\ UNCHANGED containers
    /\ UNCHANGED <<config, client, evacuating>>

(* Faulty: answer first and begin the evacuation later. *)
EvacuateAnswersFirst(n) ==
    /\ \/ Serving(n, "Evacuate", "sent") /\ Reply(n, 202, <<>>, TRUE) /\ UNCHANGED evacuating
       \/ Serving(n, "Evacuate", "replied") /\ evacuating' = TRUE /\ UNCHANGED calls
    /\ UNCHANGED <<config, client, containers, cancelling, faults>>

(* The evacuation context is set before the answer is written. *)
Evacuate(n) ==
    /\ Serving(n, "Evacuate", "sent")
    /\ evacuating' = TRUE /\ Reply(n, 202, <<>>, TRUE)
    /\ UNCHANGED <<config, client, containers, cancelling, faults>>

(* Only a simulated rep can be reset. *)
Reset(n) ==
    /\ Serving(n, "RESET", "sent")
    /\ Reply(n, 500, <<>>, FALSE)
    /\ UNCHANGED <<config, client, cellVars, faults>>

Serve(n) ==
    \/ Perform(n) \/ Allocate(n) \/ StateLists(n) \/ StateReplies(n) \/ StateFails(n)
    \/ StopLRPInstance(n) \/ CancelTask(n) \/ Evacuate(n) \/ Reset(n)

-----------------------------------------------------------------------------
(* Meanwhile on the cell.                                                  *)

(* The harmonizer runs a reserved container; the executor adds the tags of *)
(* the request to those it has.  If the conversion fails it stays reserved. *)
ContainerRuns(c) ==
    /\ c.state = "reserved"
    /\ LET key      == ActualLRPKeyFromTags(c.tags)
           instance == ActualLRPInstanceKeyFromContainer(c.tags)
           request  == IF c.item \in Task THEN NewRunRequestFromTask(Work[c.item])
                       ELSE IF key = Error \/ instance = Error THEN Error
                       ELSE NewRunRequestFromDesiredLRP(Work[c.item], key[1], instance[1])
           tag(k)   == IF k \in DOMAIN request[1].tags THEN request[1].tags[k] ELSE c.tags[k]
       IN  /\ request # Error
           /\ containers' = (containers \ {c}) \cup
                 {[c EXCEPT !.state = "running", !.run = request,
                            !.tags = [k \in DOMAIN c.tags \cup DOMAIN request[1].tags |-> tag(k)]]}
    /\ UNCHANGED <<config, client, calls, cancelling, evacuating, faults>>

ContainerGoes(c) ==
    /\ c.state = "completed"
    /\ containers' = containers \ {c}
    /\ UNCHANGED <<config, client, calls, cancelling, evacuating, faults>>

(* stopParamsFromLRP: the key of an instance that was placed here, or of   *)
(* one that nobody has claimed.                                            *)
StopParams ==
    {[process |-> <<Work[calls[n].arg].process>>, instance |-> <<<<"instance", n>>>>] :
        n \in {m \in DOMAIN calls : calls[m].route = "PERFORM" /\ calls[m].arg \in LRP}}
    \cup {[process |-> <<Work[lrp].process>>, instance |-> Blank] : lrp \in LRP}

Next ==
    \/ CreateClient
    \/ \E item \in LRP \cup Task : Send("PERFORM", item)
    \/ \E params \in StopParams : Send("StopLRPInstance", params)
    \/ \E task \in Task : Send("CancelTask", task)
    \/ \E route \in {"STATE", "RESET", "Evacuate"} : Send(route, NoTags)
    \/ \E n \in DOMAIN calls :
          TimesOut(n) \/ Returns(n) \/ Serve(n) \/ DeleteCancelled(n)
    \/ \E c \in containers : ContainerRuns(c) \/ ContainerGoes(c)

Spec == Init /\ [][Next]_vars

(* The goroutines run. *)
Fairness == WF_vars(\E n \in cancelling : DeleteCancelled(n))

FairSpec == Spec /\ Fairness

-----------------------------------------------------------------------------
(* Every variable stays in its range. *)
TypeOK ==
    /\ config \in RepConfig
    /\ client.url \in {NoURL, Address, RepURL}
    /\ \A n \in DOMAIN calls :
          /\ calls[n].route \in DOMAIN Expected
          /\ calls[n].at \in {"sent", "refused", "allocating", "listed", "replied"}
          /\ calls[n].at = "replied" <=> calls[n].status # 0
          /\ calls[n].outcome \in {"waiting", "ok", "error"}
    /\ \A c \in containers : c.item \in LRP \cup Task
                             /\ c.state \in {"reserved", "running", "completed"}
    /\ cancelling \subseteq DOMAIN calls
    /\ evacuating \in BOOLEAN /\ faults \in 0..MaxFaults

(* A client that CreateClient did not refuse reaches the cell with every   *)
(* call, whatever the two sides are configured for (TLS or not, legacy     *)
(* endpoints or not): port, scheme, routes and handlers fit.  Exceptions   *)
(* are a caller that knows only the address of a cell without legacy       *)
(* endpoints, and one that requires TLS and has no certificates.           *)
ClientReachesCell ==
    \A n \in DOMAIN calls :
        calls[n].at = "refused" => \/ client.url = Address /\ ~config.legacy
                                   \/ client.certs = "forgotten"

(* What a call returns without an error is true, though requests and       *)
(* answers are lost or late: a stopped instance was stopped by this call,  *)
(* an item not handed back by Perform got its container from it and one    *)
(* handed back did not, a State comes from a cell that was healthy, and a  *)
(* Reset, which no real cell performs, does not succeed.                   *)
AnswersAreTrue ==
    \A n \in DOMAIN calls :
        calls[n].outcome = "ok" =>
            /\ calls[n].route \in {"STATE", "StopLRPInstance"} => calls[n].did
            /\ calls[n].route # "RESET"
            /\ calls[n].route = "PERFORM" => calls[n].did = (calls[n].body[1] = {})

(* A State that is returned names every piece of work that had a container *)
(* when the call was sent and still has that container, under the very key *)
(* it was placed with: allocation, running (which changes the tags) and    *)
(* listing agree about the tags.  (A task that was deleted and placed      *)
(* again meanwhile has another container of the same guid, and may be      *)
(* missing.)                                                               *)
StateNamesPlacedWork ==
    \A n \in DOMAIN calls :
        calls[n].route = "STATE" /\ calls[n].outcome = "ok" =>
            \A c \in containers :
                c.call \in calls[n].before.placed =>
                    IF c.item \in Task
                    THEN [guid |-> Work[c.item].guid, domain |-> <<Work[c.item].domain>>]
                         \in calls[n].body[1].tasks
                    ELSE [process |-> Work[c.item].process, index |-> Work[c.item].index,
                          domain |-> Work[c.item].domain] \in calls[n].body[1].lrps

(* The root file systems in a State are the ones the cell can provide:     *)
(* what the decoded providers match, Perform translates, a preloaded one   *)
(* to the path of the last entry configured for its stack; and a preloaded *)
(* one that they do not match, it rejects.                                 *)
ProvidersAreProvided ==
    \A n \in DOMAIN calls :
        calls[n].route = "STATE" /\ calls[n].outcome = "ok" =>
            LET ps == UnmarshalProviders(calls[n].body[2])
            IN  \A r \in RootFS :
                    LET path == PathForRootFS(r, StackMap)
                    IN  /\ MatchProviders(ps, r) => path # Error
                        /\ r.scheme \in Preloaded =>
                              /\ MatchProviders(ps, r) = (path # Error)
                              /\ path # Error =>
                                    \E i \in DOMAIN config.stacks :
                                        /\ config.stacks[i] = r.opaque \o <<":">> \o path[1].path
                                        /\ \A j \in DOMAIN config.stacks :
                                              IsPrefix(r.opaque \o <<":">>, config.stacks[j])
                                              => j <= i

(* A container runs as what it was placed for: its environment, log index  *)
(* and ports are those of the item although they took the way over the     *)
(* tags, and its root file system is left out of the disk limit exactly if *)
(* it was replaced by the path of a stack shared by the containers.        *)
RunsAsPlaced ==
    \A c \in containers :
        c.run # <<>> =>
            LET run == c.run[1]
            IN  /\ run.scope = "exclusive" <=>
                      c.path.scheme = "" /\ Work[c.item].rootfs.scheme \in Preloaded
                /\ c.item \in LRP =>
                      /\ run.info = [index |-> Work[c.item].index,
                                     INSTANCE_INDEX |-> Tag(c.tags, "index"),
                                     INSTANCE_GUID |-> c.guid]
                      /\ ActualLRPNetInfoFromContainer(run) = Work[c.item].ports
                /\ c.item \in Task => Tag(c.tags, "resultFile") = Work[c.item].resultFile

(* Work that is sent after an Evacuate was answered gets no container,     *)
(* also if other requests are still being served: the context is set       *)
(* before the answer, for both servers, and is never reset.                *)
EvacuatingTakesNoWork ==
    \A n \in DOMAIN calls :
        calls[n].route = "PERFORM" /\ calls[n].before.evacuated => ~calls[n].did

(* An accepted cancellation removes the task's container, also if the      *)
(* caller never saw the answer, unless the executor fails to delete it.    *)
(* (A Perform that is delivered later still may bring it again.)           *)
AcceptedCancelDeletes ==
    LET cancels(n) == n \in DOMAIN calls /\ calls[n].route = "CancelTask"
    IN  \A n \in 1..MaxCalls :
            (cancels(n) /\ calls[n].status = 202)
            ~> /\ cancels(n)
               /\ \/ calls[n].did \/ calls[n].body = <<"undeleted">>
                  \/ Work[calls[n].arg].guid \notin Guids
=============================================================================
