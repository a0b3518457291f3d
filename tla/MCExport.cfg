CONSTANTS
    Request = {r1}
    MaxSnapshot = 1
    Label = {"x", "y"}
    Content <- MCContent
SPECIFICATION ExportSpec
INVARIANTS ExportTypeOK AnswerIsOneSnapshot PushIsFresh ExportsAgree OnceIsPushed
PROPERTIES StillHttpServer ListenerErrorEndsServer ShutdownReturns EnsureFinishes
