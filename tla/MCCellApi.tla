------------------------------ MODULE MCCellApi ------------------------------
(* An instance with the largest index there is, of two digits, and a task  *)
(* of a layered root file system.  The rep has TLS, legacy endpoints, a    *)
(* stack that is configured twice and a path with a colon; or none of      *)
(* these and not the task's stack; or entries it refuses.  (TLS concerns   *)
(* one of its servers and legacy endpoints the other, so two combinations  *)
(* have all cases.)                                                        *)
EXTENDS CellApi

URLof(s, o) == [scheme |-> s, opaque |-> o]

MCWork ==
    [i |-> [process |-> "p", index |-> 15, domain |-> "d",
            rootfs |-> URLof("preloaded", <<"s1">>),
            mounts |-> <<[mode |-> "r", config |-> "good"]>>, ports |-> <<8080, 65535>>],
     t |-> [guid |-> <<"task", 1>>, domain |-> "d", resultFile |-> <<"out">>,
            rootfs |-> URLof("preloaded+layer", <<"s2">>), mounts |-> <<>>, ports |-> <<>>]]

MCRootFS == {URLof(s, <<o>>) : s \in Preloaded \cup {"docker", "oci"}, o \in {"s1", "s2", "s3"}}
            \cup {URLof("", Blank), URLof(Unparsable, Blank)}

Entry(stack, path) == <<stack, ":">> \o path
Configured(tls, entries) == [tls |-> tls, legacy |-> tls, stacks |-> entries]

MCRepConfig ==
    {Configured(TRUE, <<Entry("s1", <<"a">>), Entry("s2", <<"b", ":", "c">>),
                        Entry("s1", <<"d">>)>>),
     Configured(FALSE, <<Entry("s1", <<"a">>)>>)}
    \cup {Configured(TRUE, <<entry>>) :
             entry \in {<<"s1">>, Entry("s1", <<>>), <<":", "a">>}}

MCProviders == {"docker"}
=============================================================================
