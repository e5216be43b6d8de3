SPECIFICATION Spec
CONSTANTS
    Fetches = {r1, r2}
    Installers = {"apk", "zip"}
    Zipped = {"zip"}
    Stores = {s1, s2}
    Runs = {"u1", "u2"}
    Files = {"video", "shot1", "shot2", "video2"}
    Images = {"shot1", "shot2"}
    Above <- MCAbove
    Dir <- MCDir
    Root <- MCRoot
    maxMaestroScreenshots = 2
    Names = {"credimi", "own"}
    Shipped = "credimi"
    Leaves = {"credimi-golden", "own-golden"}
    ShippedLeaf = "credimi-golden"
    ShippedImage = "image1"
    Phones = {"phone"}
    Inventories <- MCInventories
    None = None
INVARIANTS
    GateMeansUsable
