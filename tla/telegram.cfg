SPECIFICATION Spec
CONSTANTS
  MaxSaid = 4
  MaxItems = 4
  MaxAccidents = 1
  None = None
  Off = Off
  Chats = {"g", "h"}
  Msgs = {"m1", "m2", "m3", "b1", "b2"}
  ChatOf <- SaidIn
  Author <- SaidBy
  Mentions <- SaidTo
  ReplyTo <- InReplyTo
  Me = "inaki"
  Bots = {"robot", "inaki"}
  Lan = {"b1", "b2"}
  UserInputs = {"b2"}
  Behaviors = {"listen", "mention", "autonomous"}
  MaxCounts = {1, 2}
  Default = 1
  Window = 1
  MaxClock = 1
  MaxEvents = 1
  Albums = {"x", "y"}
  Members = {"x1", "x2", "y1"}
  AlbumOf <- FileOf
  Photos = {"p"}
  Others = {"t", "v"}
  Kind <- TextAndAudio
  DedupMax = 1
  MaxFaults = 1
  Senders = {"s"}
  Groups = {"g"}
  Privates = {"p"}
  MaxParts = 3
  MaxRounds = 2
  Attempts = 3
  NumUpdates = 3
  Batch = 2
  MaxLives = 2
  MaxCrashes = 1
  MaxLan = 1
CHECK_DEADLOCK FALSE
INVARIANTS  SendsHold 
 
