SPECIFICATION FramingSpec
CONSTANTS
  Crc <- MCCrc
  Frames <- MCFrames
  Answers <- MCAnswers
  Scraps <- MCScraps
  MaxParts = 4
  MaxCache = 32
INVARIANTS Unspliced OnlySentFrames FramesReceived FirstAnswerRead
