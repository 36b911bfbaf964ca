----------------------------- MODULE Conversions -----------------------------
(***************************************************************************)
(* How the rep turns work into allocation and run requests, container tags *)
(* back into keys, and its configuration into the root file systems it     *)
(* offers (conversion_helpers.go, rootfs_providers.go, config.go and the   *)
(* helpers of auction_cell_rep.go), as operators.                          *)
(* A text is a sequence of tokens; the blank text is empty.  An operator   *)
(* that may fail returns the sequence of its result, which is empty for an *)
(* error.  An LRP is [process, index, domain] and a task [guid, domain,    *)
(* resultFile], both with rootfs, mounts and ports.                        *)
(***************************************************************************)
EXTENDS Integers, Sequences, SequencesExt, FiniteSetsExt

CONSTANT Half   \* 2^31 in the code: int32 is -Half .. Half-1

ASSUME HalfAssumption == Half \in Nat \ {0}

Blank == <<>>
Error == <<>>

(* strconv: decimal digits and back. *)
Itoa[n \in Nat] == IF n < 10 THEN <<n>> ELSE Append(Itoa[n \div 10], n % 10)

Atoi(text) == IF text = Blank THEN Error
              ELSE <<FoldLeft(LAMBDA n, digit : 10 * n + digit, 0, text)>>

(* The conversion int32(n). *)
ToInt32(n) == ((n + Half) % (2 * Half)) - Half

-----------------------------------------------------------------------------
(* Tags.  A container may have none, and a missing tag reads as blank.     *)
NoTags == <<>>

Tag(tags, name) == IF name \in DOMAIN tags THEN tags[name] ELSE Blank

(* Faulty: the domain is left out. *)
LRPTagsWithoutDomain(lrp, instanceGuid) ==
    [lifecycle |-> <<"lrp">>, process |-> <<lrp.process>>,
     index |-> Itoa[lrp.index], instance |-> <<instanceGuid>>]

(* lrpsToAllocationRequest, tasksToAllocationRequests *)
LRPTags(lrp, instanceGuid) ==
    [lifecycle |-> <<"lrp">>, domain |-> <<lrp.domain>>, process |-> <<lrp.process>>,
     index |-> Itoa[lrp.index], instance |-> <<instanceGuid>>]

TaskTags(task) == [lifecycle |-> <<"task">>, domain |-> <<task.domain>>]

(* The index must be a number; a key with a blank part or an index below 0 *)
(* is invalid.                                                             *)
ActualLRPKeyFromTags(tags) ==
    LET process == Tag(tags, "process")
        number  == Atoi(Tag(tags, "index"))
        domain  == Tag(tags, "domain")
        index   == ToInt32(number[1])
    IN  IF number = Error THEN Error
        ELSE IF process = Blank \/ index < 0 \/ domain = Blank THEN Error
        ELSE <<[process |-> process[1], index |-> index, domain |-> domain[1]]>>

ActualLRPInstanceKeyFromContainer(tags) == Tag(tags, "instance")

LRPContainerGuid(processGuid, instanceGuid) == instanceGuid

-----------------------------------------------------------------------------
(* The configured stacks: texts "stack:path", of which the first colon     *)
(* separates; a later entry for a stack replaces an earlier one.           *)
SplitN(text) ==
    LET colon == SelectInSeq(text, LAMBDA token : token = ":")
    IN  IF colon = 0 THEN <<text>>
        ELSE <<SubSeq(text, 1, colon - 1), SubSeq(text, colon + 1, Len(text))>>

UnmarshalStackMap(entries) ==
    LET parts == [i \in DOMAIN entries |-> SplitN(entries[i])]
    IN  IF \E i \in DOMAIN parts : Len(parts[i]) # 2 \/ Blank \in Range(parts[i])
        THEN Error
        ELSE <<[stack \in {parts[i][1] : i \in DOMAIN parts} |->
                  parts[Max({i \in DOMAIN parts : parts[i][1] = stack})][2]]>>

-----------------------------------------------------------------------------
(* Root file systems: parsed URLs [scheme, opaque].  Unparsable is the     *)
(* scheme of a text that is no URL, and the blank text has neither part.   *)
Unparsable == "%"
Preloaded  == {"preloaded", "preloaded+layer"}

Arbitrary      == [type |-> "arbitrary", set |-> {}]
FixedSet(S)    == [type |-> "fixed_set", set |-> S]
NilProvider    == [type |-> "", set |-> {}]

RootFSProviders(stackMap, arbitrary) ==
    [scheme \in arbitrary \cup Preloaded |->
        IF scheme \in Preloaded THEN FixedSet(DOMAIN stackMap) ELSE Arbitrary]

(* The JSON objects: only a fixed set has the field "set". *)
MarshalProvider(p) ==
    IF p.type = "arbitrary" THEN [type |-> p.type] ELSE [type |-> p.type, set |-> p.set]

(* Faulty: the set is not decoded (its field has an ill-formed JSON name). *)
UnmarshalProviderLosesSet(json) ==
    IF json.type = "arbitrary" THEN Arbitrary ELSE FixedSet({})

UnmarshalProvider(json) ==
    IF json.type = "arbitrary" THEN Arbitrary
    ELSE IF json.type = "fixed_set"
    THEN FixedSet(IF "set" \in DOMAIN json THEN json.set ELSE {})
    ELSE NilProvider

MarshalProviders(ps)     == [scheme \in DOMAIN ps |-> MarshalProvider(ps[scheme])]
UnmarshalProviders(json) == [scheme \in DOMAIN json |-> UnmarshalProvider(json[scheme])]

MatchProviders(ps, rootfs) ==
    /\ rootfs.scheme \in DOMAIN ps
    /\ ps[rootfs.scheme].type = "arbitrary" \/ rootfs.opaque \in ps[rootfs.scheme].set

(* The path of a stack alone, or after the layer scheme; anything else is  *)
(* passed on as it is.                                                     *)
PathForRootFS(rootfs, stackMap) ==
    IF rootfs.scheme = Unparsable THEN Error
    ELSE IF rootfs.scheme \notin Preloaded
    THEN <<[scheme |-> rootfs.scheme, path |-> rootfs.opaque]>>
    ELSE IF rootfs.opaque \notin DOMAIN stackMap THEN Error
    ELSE <<[scheme |-> IF rootfs.scheme = "preloaded" THEN "" ELSE rootfs.scheme,
            path |-> stackMap[rootfs.opaque]]>>

-----------------------------------------------------------------------------
(* Run requests.                                                           *)

(* Faulty: every preloaded root file system is left out of the limit. *)
DiskScopeExcludesLayers(rootfs) ==
    IF rootfs.scheme = Unparsable THEN Error
    ELSE <<IF rootfs.scheme \in Preloaded THEN "exclusive" ELSE "total">>

DiskScopeForRootFS(rootfs) ==
    IF rootfs.scheme = Unparsable THEN Error
    ELSE <<IF rootfs.scheme = "preloaded" THEN "exclusive" ELSE "total">>

(* A mount is [mode, config], config being blank, good or bad JSON. *)
ConvertVolumeMount(mount) ==
    IF mount.config = "bad" \/ mount.mode \notin {"r", "rw"} THEN Error
    ELSE <<[mode |-> IF mount.mode = "r" THEN "RO" ELSE "RW", config |-> mount.config]>>

ConvertVolumeMounts(mounts) ==
    LET converted == [i \in DOMAIN mounts |-> ConvertVolumeMount(mounts[i])]
    IN  IF Error \in Range(converted) THEN Error
        ELSE <<[i \in DOMAIN mounts |-> converted[i][1]]>>

(* uint16(port) *)
ConvertPortMappings(ports) == [i \in DOMAIN ports |-> ports[i] % 65536]

RunRequest(work, info, ports, tags) ==
    LET scope  == DiskScopeForRootFS(work.rootfs)
        mounts == ConvertVolumeMounts(work.mounts)
    IN  IF scope = Error \/ mounts = Error THEN Error
        ELSE <<[info |-> info, scope |-> scope[1], mounts |-> mounts[1],
                ports |-> ports, tags |-> tags]>>

(* The index appears as a number in the log and metrics configuration and  *)
(* as text in the environment, next to the instance guid.                  *)
NewRunRequestFromDesiredLRP(desired, key, instanceGuid) ==
    RunRequest(desired, [index |-> key.index, INSTANCE_INDEX |-> Itoa[key.index],
                         INSTANCE_GUID |-> instanceGuid],
               ConvertPortMappings(desired.ports), NoTags)

NewRunRequestFromTask(task) ==
    RunRequest(task, [index |-> 0, INSTANCE_INDEX |-> Blank, INSTANCE_GUID |-> Blank],
               <<>>, [resultFile |-> task.resultFile])

(* The container's ports as they are reported to the BBS (uint32). *)
ActualLRPNetInfoFromContainer(run) == run.ports
=============================================================================
