\* Every class and every secret.
CONSTANTS
    Inputs <- RequestInputs
    Nil = Nil
    Malformed = Malformed
    Images <- AllImages
    Annotations <- AllAnnotations
    ClusterKeys = {"cluster1", "cluster2", "both"}
    RoleKeys = {"role1", "role2", "both"}
    DataNames = {"/dev/sdb", "/dev/sdc"}
SPECIFICATION Spec
INVARIANTS
    TypeOK
    RequestIsAccepted
    OneRootVolume
    LaunchedIsFound
    UsedUnlessBlank
