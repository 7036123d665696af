---------------------------- MODULE MCIdentifiers ----------------------------
\* The requests: all lists of up to three volume sources, and provider ids of
\* up to five parts.
EXTENDS Identifiers

MCVolumes == {"vol-1", "vol-2"}
MCOthers == {"", "disk"}
MCNames == {"eu-west-1", "i-1", "i-2"}

Bare == {[name |-> n] : n \in {"vol-1", "disk", ""}}

Urls == {[parses |-> TRUE, path |-> p] :
            p \in {<<>>, <<"", "vol-1">>, <<"", "", "vol-2", "", "">>,
                   <<"", "disk">>, <<"", "", "">>, <<"", "vol-1", "vol-2">>}}
        \cup {[parses |-> FALSE, path |-> <<"", "vol-1">>]}

Sources == {[ebs |-> id] : id \in Bare \cup Urls}
           \cup {[driver |-> d, handle |-> h] :
                    d \in {"ebs.csi.aws.com", "other"}, h \in {"vol-2", ""}}
           \cup {[other |-> TRUE]}

Lists(S, n) == UNION {[1..k -> S] : k \in 0..n}

MCRequests == {[pvSpecs |-> l] : l \in Lists(Sources, 3)}
              \cup {[providerID |-> l] : l \in Lists({"eu-west-1", "i-1"}, 2)}
              \cup {[providerID |-> encodeInstanceID(r, i)] : r, i \in MCNames}
==============================================================================
