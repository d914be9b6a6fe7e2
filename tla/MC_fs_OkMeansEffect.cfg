CONSTANTS
    Conns = {c1}
    Methods = {"PUT", "POST", "DELETE"}
    Names = {"f", "g", ".h", "d/"}
    DotNames = {".h"}
    DirNames = {"d/"}
    Data = {"x"}
    Bodies <- MC_Bodies
    InitFiles <- MC_InitFiles
    MaxInodes = 2
    RestIncludesChunk = TRUE
    ServerEuid = 33
    NoReq = NoReq
    NoPath = NoPath
SPECIFICATION FsSpec
INVARIANT OkMeansEffect

