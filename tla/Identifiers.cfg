CONSTANTS
    Volumes <- MCVolumes
    Others <- MCOthers
    Names <- MCNames
    Requests <- MCRequests
SPECIFICATION Spec
INVARIANTS
    EveryVolumeNamed
    ProviderIDNamesInstance
