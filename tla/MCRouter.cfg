CONSTANTS
  None = None
  Threads = {task1, task2}
  Conns = {conn1}
  Official = Official
  Customs = {custom1}
  MaxRequests = 3
  MaxChanges = 2
  MaxConnects = 2
  MaxRoutes = 1
  Chats = {x, y}
  First = x
  OfficialModels = {o}
  CustomModels = {c}
  Openai = Openai
  Platform = Platform
  Defaulting = TRUE
  MaxAsked = 2
  MaxNotices = 1
  MaxDrops = 1
  MaxMeets = 3
SPECIFICATION MCSpec
SYMMETRY Symmetry
INVARIANTS
  RoutesFollowRequests
  AnswersMeetTheirRequests
  
CHECK_DEADLOCK FALSE
