------------------------------- MODULE Errors -------------------------------
(***************************************************************************)
(* What the driver takes an error of an EC2 request for (pkg/aws/errors).  *)
(* An error is known by its code; one that never came from EC2, such as a  *)
(* broken connection, has none.                                            *)
(***************************************************************************)

\* EC2 does not know the instance, or does not know it yet.
InstanceIDNotFound == "InvalidInstanceID.NotFound"

\* EC2 has no room for the instance, or the account has used up its share.
Shortages ==
    {"InsufficientCapacity", "InsufficientAddressCapacity",
     "InsufficientInstanceCapacity", "InsufficientVolumeCapacity",
     "InstanceLimitExceeded", "VcpuLimitExceeded", "VolumeLimitExceeded",
     "MaxIOPSLimitExceeded", "RouteLimitExceeded", "Unsupported"}

\* All the codes the driver tells apart, one it does not, and none.
EC2Error == Shortages \cup {InstanceIDNotFound, "RequestLimitExceeded", "none"}

GetMCMErrorCodeForCreateMachine(err) ==
    IF err \in Shortages THEN "ResourceExhausted" ELSE "Internal"

\* Mutant of GetMCMErrorCodeForTerminateInstances: an error without a code is
\* taken for a missing instance, too.
GetMCMErrorCodeForTerminateInstances_NoCode(err) ==
    IF err \in {InstanceIDNotFound, "none"} THEN "NotFound" ELSE "Internal"

GetMCMErrorCodeForTerminateInstances(err) ==
    IF err = InstanceIDNotFound THEN "NotFound" ELSE "Internal"

IsInstanceIDNotFound(err) == err = InstanceIDNotFound
============================================================================
