CONSTANTS
  Makes = {"kenwood", "elecraft", "yaesu", "icom"}
  Ports <- MCPorts
  Lines = {"dtr"}
  Unsolicited <- MCUnsolicited
  Command <- MCCommand
  Answers <- MCAnswers
  Noise <- MCNoise
  MaxFrames <- MCMaxFrames
  MaxExchanges = 1
  MaxDamages = 1
SPECIFICATION Spec
INVARIANTS TypeOK Resync
PROPERTY LossTold
CHECK_DEADLOCK FALSE
