----------------------------- MODULE Identifiers -----------------------------
(***************************************************************************)
(* The identifiers the driver exchanges with MCM: the volumes of a node    *)
(* (GetVolumeIDs, by which MCM waits for them to be detached) and the      *)
(* provider id by which a machine names its instance (util.go).            *)
(*                                                                         *)
(* A call is one step, from its request to its response.  A string with    *)
(* slashes is the sequence of the parts between them.                      *)
(***************************************************************************)
EXTENDS Integers, Sequences, FiniteSets, FiniteSetsExt

CONSTANTS
    Volumes,    \* parts that ^vol-[^/]*$ matches
    Others,     \* other parts, the empty one among them
    Names,      \* the names of regions and instances
    Requests    \* the requests considered

ASSUME PartsAssumption == Volumes \cap Others = {} /\ "" \in Others

Part == Volumes \cup Others

\* The volume id of an in-tree source: a bare name, or a URL that begins with
\* aws://, of whose host nothing is made and whose path may not parse.
VolumeID == [name : Part] \cup [parses : BOOLEAN, path : Seq(Part)]

\* A volume source of a node: in-tree EBS, CSI, or another kind (or nil).
PVSpec == [ebs : VolumeID]
          \cup [driver : {"ebs.csi.aws.com", "other"}, handle : Part]
          \cup {[other |-> TRUE]}

ProviderID == Seq(Names \cup {"aws:", ""})

ASSUME RequestsAssumption ==
    Requests \subseteq [pvSpecs : Seq(PVSpec)] \cup [providerID : ProviderID]

VARIABLES request, response

vars == <<request, response>>

NoResponse == [code |-> "none"]

Init == request \in Requests /\ response = NoResponse

---------------------------------------------------------------------------

\* The path without the slashes at its ends.
Trim(path) ==
    LET parts == {i \in DOMAIN path : path[i] # ""}
    IN  IF parts = {} THEN <<>> ELSE SubSeq(path, Min(parts), Max(parts))

\* Whether the id translates, and to what.  A bare one is not looked at.
Translates(id) ==
    \/ "name" \in DOMAIN id
    \/ id.parses /\ Len(Trim(id.path)) = 1 /\ Trim(id.path)[1] \in Volumes

kubernetesVolumeIDToEBSVolumeID(id) ==
    IF "name" \in DOMAIN id THEN id.name ELSE Trim(id.path)[1]

\* Mutant of IsCounted: any CSI driver's volumes are taken.
IsCounted_AnyDriver(spec) ==
    \/ "ebs" \in DOMAIN spec /\ Translates(spec.ebs)
    \/ "driver" \in DOMAIN spec /\ spec.handle # ""

\* The specs whose volume is appended; the loop passes over the others.
IsCounted(spec) ==
    \/ "ebs" \in DOMAIN spec /\ Translates(spec.ebs)
    \/ "driver" \in DOMAIN spec /\ spec.driver = "ebs.csi.aws.com" /\ spec.handle # ""

VolumeOf(spec) ==
    IF "ebs" \in DOMAIN spec
    THEN kubernetesVolumeIDToEBSVolumeID(spec.ebs)
    ELSE spec.handle

\* The loop over the specs: what it has gathered after the first n of them.
VolumeIDs(specs) ==
    LET after[n \in 0..Len(specs)] ==
            IF n = 0 THEN <<>>
            ELSE IF IsCounted(specs[n]) THEN Append(after[n - 1], VolumeOf(specs[n]))
            ELSE after[n - 1]
    IN  after[Len(specs)]

GetVolumeIDs ==
    /\ response = NoResponse /\ "pvSpecs" \in DOMAIN request
    /\ response' = [code |-> "OK", volumeIDs |-> VolumeIDs(request.pvSpecs)]
    /\ UNCHANGED request

---------------------------------------------------------------------------

\* aws:///region/instance, written by CreateMachine and ListMachines.
encodeInstanceID(region, instanceID) == <<"aws:", "", "", region, instanceID>>

\* Mutant of decodeRegionAndInstanceID: the two parts in the wrong order.
decodeRegionAndInstanceID_Swapped(id) == <<id[Len(id)], id[Len(id) - 1]>>

\* The last two parts, whatever comes before them.
decodeRegionAndInstanceID(id) == <<id[Len(id) - 1], id[Len(id)]>>

\* What DeleteMachine and the lookup by provider id do with it first.
DecodeProviderID ==
    /\ response = NoResponse /\ "providerID" \in DOMAIN request
    /\ response' = IF Len(request.providerID) < 2
                   THEN [code |-> "InvalidArgument"]
                   ELSE [code |-> "OK", decoded |-> decodeRegionAndInstanceID(request.providerID)]
    /\ UNCHANGED request

\* A response is the end of a call.
Answered == response # NoResponse /\ UNCHANGED vars

Next == GetVolumeIDs \/ DecodeProviderID \/ Answered

Spec == Init /\ [][Next]_vars

---------------------------------------------------------------------------

\* A URL names the volume that is its path's only part.
UrlNames(id, v) ==
    /\ id.parses /\ v \in Volumes
    /\ \E i \in DOMAIN id.path :
          /\ id.path[i] = v
          /\ \A j \in DOMAIN id.path \ {i} : id.path[j] = ""

\* The volumes a source names, read off its id as a whole.
VolumesOf(spec) ==
    {v \in Part :
        \/ /\ "ebs" \in DOMAIN spec
           /\ IF "name" \in DOMAIN spec.ebs THEN v = spec.ebs.name ELSE UrlNames(spec.ebs, v)
        \/ /\ "driver" \in DOMAIN spec /\ spec.driver = "ebs.csi.aws.com"
           /\ v = spec.handle /\ v # ""}

\* MCM waits for the volumes that GetVolumeIDs names to be detached before it
\* goes on with the next pod: the answer has one id for each spec of an EBS
\* volume, of its own volume and at its own place among them, whatever specs
\* of other kinds, foreign CSI drivers and ids that do not translate are
\* between them, and whichever of the three documented forms the id has.
EveryVolumeNamed ==
    response # NoResponse /\ "pvSpecs" \in DOMAIN request =>
        LET specs == request.pvSpecs
            ebs   == {i \in DOMAIN specs : VolumesOf(specs[i]) # {}}
            rank(i) == Cardinality({j \in ebs : j <= i})
        IN  /\ Len(response.volumeIDs) = Cardinality(ebs)
            /\ \A i \in ebs : response.volumeIDs[rank(i)] \in VolumesOf(specs[i])

\* The provider id that CreateMachine or ListMachines gives a machine leads
\* DeleteMachine and GetMachineStatus back to the same region and instance.
ProviderIDNamesInstance ==
    \A region, instanceID \in Names :
        request = [providerID |-> encodeInstanceID(region, instanceID)]
        /\ response # NoResponse
        => response = [code |-> "OK", decoded |-> <<region, instanceID>>]
==============================================================================
