SPECIFICATION Spec
CONSTANTS
    c1 = c1
    c2 = c2
    c3 = c3
    m1 = m1
    m2 = m2
    m3 = m3
    h1 = h1
    h2 = h2
    s1 = s1
    s2 = s2
    None = None
    Calls = {c1, c2, c3}
    Messages = {m1, m2, m3}
    Unnamed = {m2}
    Chats = {h1, h2}
    Senders = {s1, s2}
    ChatOf <- MCChatOf
    SenderOf <- MCSenderOf
SYMMETRY CallSymmetry
INVARIANT PlatformInv
INVARIANT OneConversationPerChat
INVARIANT AnswerIsKept
PROPERTY AnswerSpec
CHECK_DEADLOCK FALSE
