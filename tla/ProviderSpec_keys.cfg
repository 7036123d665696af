\* The plain class, and secrets in which a key may be there without a value.
CONSTANTS
    Inputs <- KeyInputs
    Nil = Nil
    Malformed = Malformed
    Images <- AllImages
    Annotations <- AllAnnotations
    ClusterKeys = {"cluster1", "cluster2", "both"}
    RoleKeys = {"role1", "role2", "both"}
    DataNames = {"/dev/sdb", "/dev/sdc"}
SPECIFICATION Spec
INVARIANTS
    CredentialsAreOfSecret
