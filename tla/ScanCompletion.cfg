\* One scan, two chats, a mandatory and an optional finding; two completion
\* attempts, one recovery, one interrupted call; safety and liveness.
SPECIFICATION MCSpec
CONSTANTS
    Session = {s1, s2}
    Finding = {f1, f2}
    Reportable = {f1}
    Coverage = {c1}
    None = None
    MaxItems = 1
    MaxAttempts = 2
    MaxTransfers = 1
    MaxInterrupts = 1
INVARIANTS CompleteIsSealed SealBindsArtifacts ExportsArePublished
PROPERTIES OnlyOwnerActs ImplementsSealedResult SealedIsPublished
