\* Two chats of a profile and one of the unified session, up to the bounds.
CONSTANTS
  p1 = p1
  p2 = p2
  u = u
  profile = profile
  key = key
  profileAgent = profileAgent
  mainAgent = mainAgent
  Chats <- ThreeChats
  Keys <- TwoKeys
  Profiles <- OneProfile
  Agents <- TwoAgents
  KeyOf <- ChatKey
  AgentOf <- KeyAgent
  Asking <- AskingChat
  MaxAsks = 2
  MaxCancels = 2
  MaxMsgs = 2
SPECIFICATION FairSpec
INVARIANTS
  Reachable
  StreamsClose
  StopLeavesNone
  RepliesAwaited
PROPERTY MessagesSettle
CHECK_DEADLOCK FALSE
